---- MODULE Spec2Model ----
(***************************************************************************)
(* Quotely server (src/server/server.js): the PDF content cache, the       *)
(* segment server and the OCR fan-out, as state machines.                  *)
(*                                                                         *)
(* Text is a sequence of characters; a character is a natural number,      *)
(* 0 standing for a space, 1 for a newline, the others for letters and     *)
(* digits.  Durations are counted in clock ticks.                          *)
(*                                                                         *)
(* PDF_CACHE_DURATION, MAX_CACHE_SIZE, SEGMENT_SIZE, SCANNED_AVG_CHARS and *)
(* KEY_PREFIX_LEN carry the source's names or literals with values scaled  *)
(* down (300000 ms, 15 entries, 50000, 500 and 100 characters in the       *)
(* source), so that expiry, capacity eviction and multi-segment documents  *)
(* all occur within the explored states.  OCR_PAGE_LIMIT and               *)
(* PAGES_PER_REQUEST have the source's values.                             *)
(***************************************************************************)
EXTENDS Integers, Sequences, FiniteSets, TLC

\* ------------------------------------------------------------------ bounds
MaxClock == 4
\* The segment indexes requested are 0..MaxSegmentIndex.
MaxSegmentIndex == 3
\* The page counts the OCR fan-out is run on are 1..MaxPages.
MaxPages == 16
\* The texts ingested directly have 0..MaxTextLen characters.
MaxTextLen == 7

\* The clock values of the runs that follow the cache calls statement by
\* statement.
MaxLoopClock == 3

\* ------------------------------------------------------- program constants
PDF_CACHE_DURATION == 2
MAX_CACHE_SIZE == 2
SEGMENT_SIZE == 2
\* avgCharsPerPage < 500 marks a scanned PDF (scaled).
SCANNED_AVG_CHARS == 2
\* extractedText.substring(0, 100) in the key of a local file (scaled).
KEY_PREFIX_LEN == 2
\* pageCount > 30 is too large for OCR.
OCR_PAGE_LIMIT == 30
PAGES_PER_REQUEST == 5
\* /api/find-quotes: MAX_CHARS (50000 in the source), the sentence length
\* filter (20), minLen (20) and maxLen (500) are scaled down; the keyword
\* length filter is the source's.
MAX_CHARS == 24
MIN_SENTENCE_LEN == 3
minLen == 3
maxLen == 7
KEYWORD_MIN_LEN == 2

\* --------------------------------------------------------------- universe
\* A cache key is a string or undefined.  The strings that occur are URLs and
\* the keys built for local files, `local_${title}_${prefix}`; a key is
\* written <<kind, name, prefix>> so that two keys are equal exactly when the
\* JavaScript values are.
UrlKey(u) == <<"url", u, <<>>>>
\* The JavaScript value undefined, as a Map key or a missing request field.
Undef == <<"undefined", "", <<>>>>
\* null, the initial value of oldestKey.
NullKey == <<"null", "", <<>>>>
Keys == {UrlKey("u1"), UrlKey("u2"), Undef}
\* What the free-standing cache calls store: a content with its isOCR flag.
Payloads == {[content |-> <<1>>, isOCR |-> FALSE],
             [content |-> <<2, 3, 4>>, isOCR |-> TRUE]}

VARIABLES
    pdfCache,   \* the module-level Map, as its entries in insertion order
    now,        \* the value Date.now() returns
    ret,        \* the last cache call: its arguments, its log line, its result
    visionClient, \* whether the Vision client was created at start-up
    req,        \* the /api/extract-pdf requests in flight, one per slot
    extractResp, \* the response /api/extract-pdf sends in this step, if any
    segResp,    \* the response /api/get-pdf-segment sends in this step, if any
    quoteReq,   \* the /api/find-quotes request in flight and its response
    task        \* the callbacks that call the cache: which one is on the
                \* stack, and where each stands inside its cache call

cacheVars == <<pdfCache, now, ret>>
vars == <<pdfCache, now, ret, visionClient, req, extractResp, segResp,
          quoteReq, task>>

\* ------------------------------------------------------------------- text
Space == 0
Newline == 1
IsWhitespace(c) == c \in {Space, Newline}
\* Characters are numbers: 2..99 are lower-case letters and digits, Period
\* stands for the sentence-ending marks, Upper(c) is the capital of letter c.
Period == 100
Upper(c) == c + 200
\* [a-z0-9]
IsLowerAlnum(c) == c \in 2..99
\* [a-zA-Z0-9]
IsAlnum(c) == IsLowerAlnum(c) \/ c >= Upper(2)

Min(a, b) == IF a < b THEN a ELSE b
Max(a, b) == IF a > b THEN a ELSE b

\* String.prototype.substring: both arguments are clamped to [0, length] and
\* swapped when start > end.
Substring(str, start, end) ==
    LET a == Max(0, Min(start, Len(str)))
        b == Max(0, Min(end, Len(str)))
    IN  SubSeq(str, Min(a, b) + 1, Max(a, b))

\* Array.prototype.join(' ')
RECURSIVE JoinSpace(_)
JoinSpace(texts) ==
    IF texts = <<>> THEN <<>>
    ELSE IF Len(texts) = 1 THEN texts[1]
    ELSE texts[1] \o <<Space>> \o JoinSpace(Tail(texts))

RECURSIVE DropWhile(_, _)
DropWhile(str, class) ==
    IF str /= <<>> /\ Head(str) \in class THEN DropWhile(Tail(str), class) ELSE str

\* str.replace(/[class]+/g, ' '): every maximal run of class becomes one space.
RECURSIVE ReplaceRuns(_, _)
ReplaceRuns(str, class) ==
    IF str = <<>> THEN <<>>
    ELSE IF Head(str) \in class
         THEN <<Space>> \o ReplaceRuns(DropWhile(Tail(str), class), class)
         ELSE <<Head(str)>> \o ReplaceRuns(Tail(str), class)

RECURSIVE Reverse(_)
Reverse(str) == IF str = <<>> THEN <<>> ELSE Reverse(Tail(str)) \o <<Head(str)>>

\* String.prototype.trim
Trim(str) ==
    Reverse(DropWhile(Reverse(DropWhile(str, {Space, Newline})), {Space, Newline}))

\* ------------------------------------------------------------------ cache
CacheKeys(cache) == {cache[i].key : i \in 1..Len(cache)}

Has(cache, k) == k \in CacheKeys(cache)

Entry(cache, k) == cache[CHOOSE i \in 1..Len(cache) : cache[i].key = k]

\* Map.delete: the other entries keep their order.
MapDelete(cache, k) == SelectSeq(cache, LAMBDA e : e.key /= k)

\* Map.set: an existing key keeps its position, a new key goes last.
MapSet(cache, k, v) ==
    IF Has(cache, k)
    THEN [i \in 1..Len(cache) |-> IF cache[i].key = k THEN v ELSE cache[i]]
    ELSE Append(cache, v)

\* Mutant: no entry ever expires.
Expired_Never(e, t) == FALSE

Expired(e, t) == t - e.timestamp > PDF_CACHE_DURATION

\* Mutant: the sweep removes only the first expired entry it meets.
SweepExpired_FirstOnly(cache, t) ==
    IF \A i \in 1..Len(cache) : ~Expired(cache[i], t) THEN cache
    ELSE LET first == CHOOSE i \in 1..Len(cache) :
                         /\ Expired(cache[i], t)
                         /\ \A j \in 1..(i - 1) : ~Expired(cache[j], t)
         IN  SubSeq(cache, 1, first - 1) \o SubSeq(cache, first + 1, Len(cache))

\* The keys the first loop logs as "Removed expired cache entry".
RemovedExpired(cache, t) ==
    {cache[i].key : i \in {j \in 1..Len(cache) : Expired(cache[j], t)}}

\* The first loop of cachePdfContent.
SweepExpired(cache, t) == SelectSeq(cache, LAMBDA e : ~Expired(e, t))

\* The scan for the oldest entry: oldestTime starts at Date.now() and an entry
\* replaces the candidate only when its timestamp is strictly smaller.
RECURSIVE OldestFrom(_, _, _, _)
OldestFrom(cache, i, oldestKey, oldestTime) ==
    IF i > Len(cache) THEN oldestKey
    ELSE IF cache[i].timestamp < oldestTime
         THEN OldestFrom(cache, i + 1, cache[i].key, cache[i].timestamp)
         ELSE OldestFrom(cache, i + 1, oldestKey, oldestTime)

OldestKey(cache, t) == OldestFrom(cache, 1, NullKey, t)

\* if (oldestKey): null and undefined are falsy.
Truthy(k) == k /= NullKey /\ k /= Undef

EvictOldest(cache, url, t) ==
    IF Len(cache) >= MAX_CACHE_SIZE /\ ~Has(cache, url)
    THEN LET oldestKey == OldestKey(cache, t)
         IN  IF Truthy(oldestKey) THEN MapDelete(cache, oldestKey) ELSE cache
    ELSE cache

\* Mutant: a key already in the map keeps its old entry.
cachePdfContent_KeepsExisting(cache, url, content, isOCR, t) ==
    IF Has(cache, url) THEN cache
    ELSE Append(cache, [key |-> url, content |-> content, isOCR |-> isOCR,
                        timestamp |-> t])

cachePdfContent(cache, url, content, isOCR, t) ==
    MapSet(EvictOldest(SweepExpired(cache, t), url, t), url,
           [key |-> url, content |-> content, isOCR |-> isOCR, timestamp |-> t])

\* What getCachedPdfContent returns for null.
Miss == [hit |-> FALSE, content |-> <<>>, isOCR |-> FALSE, timestamp |-> 0]

\* Mutant: an expired entry is reported as a miss but stays in the map.
getCachedPdfContent_NoEvict(cache, url, t) ==
    IF ~Has(cache, url) THEN [cache |-> cache, cached |-> Miss, log |-> "miss"]
    ELSE LET cached == Entry(cache, url)
         IN  IF Expired(cached, t)
             THEN [cache |-> cache, cached |-> Miss, log |-> "expired"]
             ELSE [cache |-> MapSet(cache, url, [cached EXCEPT !.timestamp = t]),
                   cached |-> [hit |-> TRUE, content |-> cached.content,
                               isOCR |-> cached.isOCR, timestamp |-> t],
                   log |-> "hit"]

\* getCachedPdfContent: the map afterwards, the returned object and the line
\* the function logs ("miss", "expired" or "hit").
getCachedPdfContent(cache, url, t) ==
    IF ~Has(cache, url) THEN [cache |-> cache, cached |-> Miss, log |-> "miss"]
    ELSE LET cached == Entry(cache, url)
         IN  IF Expired(cached, t)
             THEN [cache |-> MapDelete(cache, url), cached |-> Miss,
                   log |-> "expired"]
             ELSE [cache |-> MapSet(cache, url, [cached EXCEPT !.timestamp = t]),
                   cached |-> [hit |-> TRUE, content |-> cached.content,
                               isOCR |-> cached.isOCR, timestamp |-> t],
                   log |-> "hit"]

\* ------------------------------------------ cache calls on the event loop
\* The two cache functions step by step, as the callbacks of concurrent
\* requests run them.  Node runs one callback at a time: a callback keeps
\* the stack until it returns or awaits, and only then does the event loop
\* start or resume another.  task.running is the callback on the stack (0:
\* none), task.pc[c] the statement callback c is about to run ("idle":
\* outside a cache call), task.call[c] the call it is in, with the map and
\* the clock as they were when the call began and the object its look-up
\* found, and task.last the call that
\* returned in this step, if one did, with the map it left and the object
\* it returned.
Callbacks == {1, 2}

NoCacheCall == [op |-> "none", key |-> Undef, content |-> <<>>,
                isOCR |-> FALSE, start |-> <<>>, t |-> 0, found |-> <<>>]

NoLast == [by |-> 0, call |-> NoCacheCall, after |-> <<>>, cached |-> Miss]

NoTask == [running |-> 0,
           pc |-> [c \in Callbacks |-> "idle"],
           call |-> [c \in Callbacks |-> NoCacheCall],
           last |-> NoLast]

\* Mutant: the sweep of cachePdfContent and the look-up of
\* getCachedPdfContent end in an await.
AwaitsAt_AfterFirstStep(pc) == pc \in {"idle", "put_evict", "get_expiry"}

\* The statements at which a callback gives up the stack: neither function
\* has an await, so a callback gives it up only outside them.
AwaitsAt(pc) == pc = "idle"

\* Callback c may run its next statement: it is on the stack, or the stack
\* is empty and the event loop resumes it.
MayRun(c) ==
    /\ task.pc[c] /= "idle"
    /\ task.running = c \/ task.running = 0

\* Callback c has run a statement and stands at pc.
StepTo(c, pc) ==
    [task EXCEPT !.pc[c] = pc,
                 !.running = IF AwaitsAt(pc) THEN 0 ELSE c,
                 !.last = NoLast]

\* Callback c returns from its call, which returned cached and left the map
\* as after.
ReturnFrom(c, after, cached) ==
    [task EXCEPT !.pc[c] = "idle",
                 !.running = IF AwaitsAt("idle") THEN 0 ELSE c,
                 !.call[c] = NoCacheCall,
                 !.last = [by |-> c, call |-> task.call[c], after |-> after,
                           cached |-> cached]]

\* The event loop starts callback c, which calls cachePdfContent or
\* getCachedPdfContent.
Dispatch(c, op, k, content, isOCR) ==
    /\ task.running = 0
    /\ task.pc[c] = "idle"
    /\ task' = [task EXCEPT
                   !.running = c,
                   !.last = NoLast,
                   !.pc[c] = IF op = "put" THEN "put_sweep" ELSE "get_lookup",
                   !.call[c] = [op |-> op, key |-> k, content |-> content,
                                isOCR |-> isOCR, start |-> pdfCache, t |-> now,
                                found |-> <<>>]]
    /\ UNCHANGED <<pdfCache, now, ret, visionClient, req, extractResp,
                   segResp, quoteReq>>

\* for (const [key, value] of pdfCache.entries()) ... pdfCache.delete(key)
PutSweep(c) ==
    /\ MayRun(c)
    /\ task.pc[c] = "put_sweep"
    /\ pdfCache' = SweepExpired(pdfCache, now)
    /\ task' = StepTo(c, "put_evict")
    /\ UNCHANGED <<now, ret, visionClient, req, extractResp, segResp, quoteReq>>

\* if (pdfCache.size >= MAX_CACHE_SIZE && !pdfCache.has(url)) ...
PutEvict(c) ==
    /\ MayRun(c)
    /\ task.pc[c] = "put_evict"
    /\ pdfCache' = EvictOldest(pdfCache, task.call[c].key, now)
    /\ task' = StepTo(c, "put_set")
    /\ UNCHANGED <<now, ret, visionClient, req, extractResp, segResp, quoteReq>>

\* pdfCache.set(url, {content, isOCR, timestamp: Date.now()})
PutSet(c) ==
    /\ MayRun(c)
    /\ task.pc[c] = "put_set"
    /\ LET call == task.call[c]
           after == MapSet(pdfCache, call.key,
                           [key |-> call.key, content |-> call.content,
                            isOCR |-> call.isOCR, timestamp |-> now])
       IN  /\ pdfCache' = after
           /\ task' = ReturnFrom(c, after, Miss)
    /\ UNCHANGED <<now, ret, visionClient, req, extractResp, segResp, quoteReq>>

\* const cached = pdfCache.get(url); if (!cached) return null
GetLookup(c) ==
    /\ MayRun(c)
    /\ task.pc[c] = "get_lookup"
    /\ LET k == task.call[c].key
       IN  task' = IF Has(pdfCache, k)
                   THEN [StepTo(c, "get_expiry") EXCEPT
                            !.call[c].found = <<Entry(pdfCache, k)>>]
                   ELSE ReturnFrom(c, pdfCache, Miss)
    /\ UNCHANGED <<pdfCache, now, ret, visionClient, req, extractResp,
                   segResp, quoteReq>>

\* if (Date.now() - cached.timestamp > PDF_CACHE_DURATION) { delete; return
\* null }, on the object that the look-up found.
GetExpiry(c) ==
    /\ MayRun(c)
    /\ task.pc[c] = "get_expiry"
    /\ LET k == task.call[c].key
           cached == task.call[c].found[1]
       IN  IF Expired(cached, now)
           THEN /\ pdfCache' = MapDelete(pdfCache, k)
                /\ task' = ReturnFrom(c, MapDelete(pdfCache, k), Miss)
           ELSE /\ pdfCache' = pdfCache
                /\ task' = StepTo(c, "get_refresh")
    /\ UNCHANGED <<now, ret, visionClient, req, extractResp, segResp, quoteReq>>

\* cached.timestamp = Date.now(); pdfCache.set(url, cached); return cached
GetRefresh(c) ==
    /\ MayRun(c)
    /\ task.pc[c] = "get_refresh"
    /\ LET k == task.call[c].key
           cached == task.call[c].found[1]
           after == MapSet(pdfCache, k, [cached EXCEPT !.timestamp = now])
       IN  /\ pdfCache' = after
           /\ task' = ReturnFrom(c, after,
                          [hit |-> TRUE, content |-> cached.content,
                           isOCR |-> cached.isOCR, timestamp |-> now])
    /\ UNCHANGED <<now, ret, visionClient, req, extractResp, segResp, quoteReq>>

\* ------------------------------------------------------- segment server
\* The body of a /api/get-pdf-segment request: pdfUrl is a key or undefined,
\* segmentIndex a number when hasIndex, undefined otherwise.
\* A response carries, as pdfUrl and log, what the handler and
\* getCachedPdfContent logged for its request.
NoSegResp == [status |-> 0, error |-> "", content |-> <<>>, segmentIndex |-> 0,
              start |-> 0, end |-> 0, isOCR |-> FALSE, pdfUrl |-> Undef,
              log |-> "none"]

SegError(status, error) == [NoSegResp EXCEPT !.status = status, !.error = error]

\* Mutant: the segments are one character shorter than SEGMENT_SIZE apart.
getPdfSegment_Overlapping(cache, body, t) ==
    IF body.pdfUrl = Undef \/ ~body.hasIndex
    THEN [cache |-> cache, resp |-> SegError(400, "required")]
    ELSE LET g == getCachedPdfContent(cache, body.pdfUrl, t)
             start == body.segmentIndex * (SEGMENT_SIZE - 1)
             end == Min(start + SEGMENT_SIZE, Len(g.cached.content))
         IN  IF ~g.cached.hit
             THEN [cache |-> g.cache,
                   resp |-> [SegError(404, "not found in cache") EXCEPT
                           !.segmentIndex = body.segmentIndex,
                           !.pdfUrl = body.pdfUrl, !.log = g.log]]
             ELSE [cache |-> g.cache,
                   resp |-> [status |-> 200, error |-> "",
                             content |-> Substring(g.cached.content, start, end),
                             segmentIndex |-> body.segmentIndex,
                             start |-> start, end |-> end,
                             isOCR |-> g.cached.isOCR, pdfUrl |-> body.pdfUrl,
                        log |-> g.log]]

\* The handler of /api/get-pdf-segment: the map afterwards and the response.
getPdfSegment(cache, body, t) ==
    IF body.pdfUrl = Undef \/ ~body.hasIndex
    THEN [cache |-> cache, resp |-> SegError(400, "required")]
    ELSE LET g == getCachedPdfContent(cache, body.pdfUrl, t)
             start == body.segmentIndex * SEGMENT_SIZE
             end == Min(start + SEGMENT_SIZE, Len(g.cached.content))
         IN  IF ~g.cached.hit
             THEN [cache |-> g.cache,
                   resp |-> [SegError(404, "not found in cache") EXCEPT
                           !.segmentIndex = body.segmentIndex,
                           !.pdfUrl = body.pdfUrl, !.log = g.log]]
             ELSE [cache |-> g.cache,
                   resp |-> [status |-> 200, error |-> "",
                             content |-> Substring(g.cached.content, start, end),
                             segmentIndex |-> body.segmentIndex,
                             start |-> start, end |-> end,
                             isOCR |-> g.cached.isOCR, pdfUrl |-> body.pdfUrl,
                        log |-> g.log]]

\* ------------------------------------------------------------ PDF parser
\* A PDF as the server sees it: what pdf2json extracts (pages of text runs,
\* already URI-decoded), what Cloud Vision reads on each page (no
\* fullTextAnnotation for the pages in blank), and whether parsing fails.
NoPdf == [pages |-> <<>>, ocr |-> <<>>, blank |-> {}, corrupt |-> FALSE]

RECURSIVE PageText(_)
PageText(runs) ==
    IF runs = <<>> THEN <<>> ELSE Head(runs) \o <<Space>> \o PageText(Tail(runs))

\* extractedText += decodeURIComponent(r.T) + ' ', over all pages
RECURSIVE PagesText(_)
PagesText(pages) ==
    IF pages = <<>> THEN <<>> ELSE PageText(Head(pages)) \o PagesText(Tail(pages))

ExtractedText(pdf) == PagesText(pdf.pages)

PageCount(pdf) == Len(pdf.pages)

\* extractedText.length / pageCount < 500, for pageCount > 0
IsScannedPDF(pdf) ==
    PageCount(pdf) > 0 /\ Len(ExtractedText(pdf)) < SCANNED_AVG_CHARS * PageCount(pdf)

\* ------------------------------------------------------------ OCR fan-out
\* Mutant: endPage is i + PAGES_PER_REQUEST, one page too far.
RECURSIVE ChunksFrom_OnePageMore(_, _)
ChunksFrom_OnePageMore(i, totalPages) ==
    IF i > totalPages THEN <<>>
    ELSE LET endPage == Min(i + PAGES_PER_REQUEST, totalPages)
         IN  <<[p \in 1..(endPage - i + 1) |-> i + p - 1]>>
                 \o ChunksFrom_OnePageMore(i + PAGES_PER_REQUEST, totalPages)

\* The loop that cuts pages 1..totalPages into ranges of PAGES_PER_REQUEST.
RECURSIVE ChunksFrom(_, _)
ChunksFrom(i, totalPages) ==
    IF i > totalPages THEN <<>>
    ELSE LET endPage == Min(i + PAGES_PER_REQUEST - 1, totalPages)
         IN  <<[p \in 1..(endPage - i + 1) |-> i + p - 1]>>
                 \o ChunksFrom(i + PAGES_PER_REQUEST, totalPages)

PageChunks(totalPages) == ChunksFrom(1, totalPages)

\* chunkText += pageResponse.fullTextAnnotation.text + ' ', for the pages of
\* the range that have an annotation.
RECURSIVE ChunkText(_, _)
ChunkText(pdf, pageRange) ==
    IF pageRange = <<>> THEN <<>>
    ELSE (IF Head(pageRange) \in pdf.blank THEN <<>>
          ELSE pdf.ocr[Head(pageRange)] \o <<Space>>)
         \o ChunkText(pdf, Tail(pageRange))

\* What Promise.all resolves to: one result per chunk promise, in the order
\* of the promises.
ChunkResults(pdf, chunks) ==
    [i \in 1..Len(chunks) |->
        [chunkIndex |-> i - 1, text |-> ChunkText(pdf, chunks[i]),
         pageRange |-> chunks[i]]]

RECURSIVE InsertByChunkIndex(_, _)
InsertByChunkIndex(r, sorted) ==
    IF sorted = <<>> THEN <<r>>
    ELSE IF r.chunkIndex - Head(sorted).chunkIndex < 0 THEN <<r>> \o sorted
    ELSE <<Head(sorted)>> \o InsertByChunkIndex(r, Tail(sorted))

\* Mutant: the comparator is b.chunkIndex - a.chunkIndex.
RECURSIVE SortByChunkIndex_Descending(_)
SortByChunkIndex_Descending(results) ==
    IF results = <<>> THEN <<>>
    ELSE SortByChunkIndex_Descending(Tail(results)) \o <<Head(results)>>

\* results.sort((a, b) => a.chunkIndex - b.chunkIndex)
RECURSIVE SortByChunkIndex(_)
SortByChunkIndex(results) ==
    IF results = <<>> THEN <<>>
    ELSE InsertByChunkIndex(results[Len(results)],
                            SortByChunkIndex(SubSeq(results, 1, Len(results) - 1)))

\* The text extractPDFTextOCR returns once every chunk has resolved.
OcrCleanedText(pdf, totalPages) ==
    LET results == SortByChunkIndex(ChunkResults(pdf, PageChunks(totalPages)))
        fullText == JoinSpace([i \in 1..Len(results) |-> results[i].text])
    IN  Trim(ReplaceRuns(ReplaceRuns(fullText, {Newline}), {Space, Newline}))

\* --------------------------------------------------------- /api/extract-pdf
NoResp == [status |-> 0, error |-> "", content |-> <<>>,
           requiresSegmentation |-> FALSE, totalLength |-> 0,
           segmentCount |-> 0, segments |-> <<>>, url |-> Undef,
           pageCount |-> 0, isOCR |-> FALSE, extractedText |-> <<>>,
           message |-> <<>>]

ErrorResp(status, error) == [NoResp EXCEPT !.status = status, !.error = error]

\* A request slot: where its handler stands ("idle" when it has none,
\* "lost" when its promise was rejected and no response will come), the
\* request, the state of each batchAnnotateFiles call and, as history, the
\* order in which the calls completed.
IdleReq == [pc |-> "idle", url |-> Undef, title |-> "", pdf |-> NoPdf,
            calls |-> <<>>, order |-> <<>>]

\* url || `local_${title}_${extractedText.substring(0, 100).replace(/[^a-zA-Z0-9]/g, '')}`
CacheKey(url, title, extractedText) ==
    IF url /= Undef THEN url
    ELSE <<"local", title,
           SelectSeq(Substring(extractedText, 0, KEY_PREFIX_LEN), IsAlnum)>>

\* Mutant: the end of a segment is not clamped to the length of the text.
RECURSIVE SegmentsFrom_Unclamped(_, _, _, _)
SegmentsFrom_Unclamped(i, length, size, segments) ==
    IF i < length
    THEN SegmentsFrom_Unclamped(i + size, length, size,
                                Append(segments, [index |-> Len(segments),
                                                  start |-> i, end |-> i + size]))
    ELSE segments

\* The loop that builds the segment metadata of a text of the given length.
RECURSIVE SegmentsFrom(_, _, _, _)
SegmentsFrom(i, length, size, segments) ==
    IF i < length
    THEN SegmentsFrom(i + size, length, size,
                      Append(segments, [index |-> Len(segments), start |-> i,
                                        end |-> Min(i + size, length)]))
    ELSE segments

CreateSegments(length, size) == SegmentsFrom(0, length, size, <<>>)

\* Mutant: a text of exactly SEGMENT_SIZE characters is segmented too.
SegmentOrReturn_AtLeast(cache, t, url, title, pageCount, extractedText, ocrWasUsed) ==
    LET cacheKey == CacheKey(url, title, extractedText)
        segments == CreateSegments(Len(extractedText), SEGMENT_SIZE)
    IN  IF Len(extractedText) >= SEGMENT_SIZE
        THEN [cache |-> cachePdfContent(cache, cacheKey, extractedText, ocrWasUsed, t),
              resp |-> [NoResp EXCEPT !.status = 200,
                                      !.requiresSegmentation = TRUE,
                                      !.totalLength = Len(extractedText),
                                      !.segmentCount = Len(segments),
                                      !.segments = segments,
                                      !.url = cacheKey,
                                      !.pageCount = pageCount,
                                      !.isOCR = ocrWasUsed]]
        ELSE [cache |-> cache,
              resp |-> [NoResp EXCEPT !.status = 200,
                                      !.content = extractedText,
                                      !.url = cacheKey,
                                      !.pageCount = pageCount,
                                      !.isOCR = ocrWasUsed]]

\* The end of the data-ready handler: a text longer than SEGMENT_SIZE is
\* cached and answered with segment metadata, any other text is returned.
SegmentOrReturn(cache, t, url, title, pageCount, extractedText, ocrWasUsed) ==
    LET cacheKey == CacheKey(url, title, extractedText)
        segments == CreateSegments(Len(extractedText), SEGMENT_SIZE)
    IN  IF Len(extractedText) > SEGMENT_SIZE
        THEN [cache |-> cachePdfContent(cache, cacheKey, extractedText, ocrWasUsed, t),
              resp |-> [NoResp EXCEPT !.status = 200,
                                      !.requiresSegmentation = TRUE,
                                      !.totalLength = Len(extractedText),
                                      !.segmentCount = Len(segments),
                                      !.segments = segments,
                                      !.url = cacheKey,
                                      !.pageCount = pageCount,
                                      !.isOCR = ocrWasUsed]]
        ELSE [cache |-> cache,
              resp |-> [NoResp EXCEPT !.status = 200,
                                      !.content = extractedText,
                                      !.url = cacheKey,
                                      !.pageCount = pageCount,
                                      !.isOCR = ocrWasUsed]]

\* resolve({error: 'scanned_pdf_too_large', ...}), sent with res.json; the
\* message is modelled by the two numbers its text states.
TooLargeResp(pageCount, extractedText) ==
    [NoResp EXCEPT !.status = 200, !.error = "scanned_pdf_too_large",
                   !.message = <<pageCount, OCR_PAGE_LIMIT>>,
                   !.pageCount = pageCount, !.extractedText = extractedText]

\* The handler up to parser.parseBuffer: validation and download.
FileUrl == <<"url", "file://", <<>>>>

ExtractPdf(s, body, download) ==
    /\ req[s].pc \in {"idle", "lost"}
    /\ \A i \in DOMAIN req[s].calls : req[s].calls[i] /= "pending"
    /\ LET fail(error) == /\ req' = [req EXCEPT ![s] = IdleReq]
                          /\ extractResp' = ErrorResp(400, error)
           parse(pdf) == /\ req' = [req EXCEPT ![s] =
                                [IdleReq EXCEPT !.pc = "parsing", !.url = body.url,
                                                !.title = body.title, !.pdf = pdf]]
                         /\ extractResp' = NoResp
       IN  IF body.url = Undef /\ ~body.hasFile
           THEN fail("URL or file content is required")
           ELSE IF body.hasFile /\ body.isLocalFile THEN parse(body.file)
           ELSE IF body.url /= Undef /\ body.url /= FileUrl
           THEN (IF download.ok THEN parse(download.pdf)
                 ELSE fail("Could not download PDF from URL"))
           ELSE IF body.url = FileUrl
           THEN fail("Local file URLs are not supported")
           ELSE fail("Invalid request format")
    /\ segResp' = NoSegResp
    /\ UNCHANGED <<cacheVars, visionClient, task, quoteReq>>

\* pdfParser_dataError: the promise is rejected and .catch rethrows.  The
\* handler returned the promise without awaiting it, so its try block is
\* left and its catch never runs: the rejection goes to whoever called the
\* handler.  A router that ignores the promise a handler returns sends no
\* response; one that forwards a rejection to its error handler answers 500
\* with that handler's own body.
ParserDataError(s) ==
    /\ req[s].pc = "parsing"
    /\ req[s].pdf.corrupt
    /\ \/ /\ req' = [req EXCEPT ![s].pc = "lost"]
          /\ extractResp' = NoResp
       \/ /\ req' = [req EXCEPT ![s] = IdleReq]
          /\ extractResp' = ErrorResp(500, "Internal Server Error")
    /\ segResp' = NoSegResp
    /\ UNCHANGED <<cacheVars, visionClient, task, quoteReq>>

\* resolve(result), then res.json(result): the request is answered.
Respond(s, out, calls, order) ==
    /\ pdfCache' = out.cache
    /\ req' = [req EXCEPT ![s] = [IdleReq EXCEPT !.calls = calls, !.order = order]]
    /\ extractResp' = out.resp

\* Mutant: the handler starts the OCR calls without looking into the cache.
ParserDataReady_NoCacheCheck(s) ==
    /\ req[s].pc = "parsing"
    /\ ~req[s].pdf.corrupt
    /\ LET r == req[s]
           extractedText == ExtractedText(r.pdf)
           pageCount == PageCount(r.pdf)
       IN  IF IsScannedPDF(r.pdf) /\ visionClient
           THEN IF pageCount > OCR_PAGE_LIMIT
                THEN Respond(s, [cache |-> pdfCache,
                                 resp |-> TooLargeResp(pageCount, extractedText)],
                             <<>>, <<>>)
                ELSE /\ UNCHANGED pdfCache
                     /\ req' = [req EXCEPT
                            ![s].pc = "ocr",
                            ![s].calls = [c \in 1..Len(PageChunks(pageCount))
                                             |-> "pending"]]
                     /\ extractResp' = NoResp
           ELSE Respond(s, SegmentOrReturn(pdfCache, now, r.url, r.title,
                                           pageCount, extractedText, FALSE),
                        <<>>, <<>>)
    /\ segResp' = NoSegResp
    /\ UNCHANGED <<now, ret, visionClient, task, quoteReq>>

\* pdfParser_dataReady, up to its first await or its response.
ParserDataReady(s) ==
    /\ req[s].pc = "parsing"
    /\ ~req[s].pdf.corrupt
    /\ LET r == req[s]
           extractedText == ExtractedText(r.pdf)
           pageCount == PageCount(r.pdf)
       IN  IF IsScannedPDF(r.pdf) /\ visionClient
           THEN LET g == getCachedPdfContent(pdfCache, r.url, now)
                IN  IF g.cached.hit /\ g.cached.isOCR
                    THEN Respond(s, SegmentOrReturn(g.cache, now, r.url, r.title,
                                                    pageCount, g.cached.content, TRUE),
                                 <<>>, <<>>)
                    ELSE IF pageCount > OCR_PAGE_LIMIT
                    THEN Respond(s, [cache |-> g.cache,
                                     resp |-> TooLargeResp(pageCount, extractedText)],
                                 <<>>, <<>>)
                    ELSE /\ pdfCache' = g.cache
                         /\ req' = [req EXCEPT
                                ![s].pc = "ocr",
                                ![s].calls = [c \in 1..Len(PageChunks(pageCount))
                                                 |-> "pending"]]
                         /\ extractResp' = NoResp
           ELSE Respond(s, SegmentOrReturn(pdfCache, now, r.url, r.title,
                                           pageCount, extractedText, FALSE),
                        <<>>, <<>>)
    /\ segResp' = NoSegResp
    /\ UNCHANGED <<now, ret, visionClient, task, quoteReq>>

\* Mutant: the handler goes on as soon as one call has resolved.
OcrGroupReturn_FirstWins(s, c) ==
    /\ c \in DOMAIN req[s].calls
    /\ req[s].calls[c] = "pending"
    /\ LET r == req[s]
           calls == [r.calls EXCEPT ![c] = "returned"]
           order == Append(r.order, c - 1)
       IN  IF r.pc = "ocr"
           THEN LET ocrText == OcrCleanedText(r.pdf, PageCount(r.pdf))
                    out == SegmentOrReturn(
                               cachePdfContent(pdfCache, r.url, ocrText, TRUE, now),
                               now, r.url, r.title, PageCount(r.pdf), ocrText, TRUE)
                IN  Respond(s, out, calls, order)
           ELSE /\ req' = [req EXCEPT ![s].calls = calls, ![s].order = order]
                /\ extractResp' = NoResp
                /\ UNCHANGED pdfCache
    /\ segResp' = NoSegResp
    /\ UNCHANGED <<now, ret, visionClient, task, quoteReq>>

\* One batchAnnotateFiles call resolves.  When it is the last one, Promise.all
\* resolves and the handler goes on: it caches the OCR text under url and
\* answers.  After a rejection of Promise.all the call changes nothing.
OcrGroupReturn(s, c) ==
    /\ c \in DOMAIN req[s].calls
    /\ req[s].calls[c] = "pending"
    /\ LET r == req[s]
           calls == [r.calls EXCEPT ![c] = "returned"]
           order == Append(r.order, c - 1)
       IN  IF r.pc = "ocr" /\ \A i \in DOMAIN calls : calls[i] = "returned"
           THEN LET ocrText == OcrCleanedText(r.pdf, PageCount(r.pdf))
                    out == SegmentOrReturn(
                               cachePdfContent(pdfCache, r.url, ocrText, TRUE, now),
                               now, r.url, r.title, PageCount(r.pdf), ocrText, TRUE)
                IN  Respond(s, out, calls, order)
           ELSE /\ req' = [req EXCEPT ![s].calls = calls, ![s].order = order]
                /\ extractResp' = NoResp
                /\ UNCHANGED pdfCache
    /\ segResp' = NoSegResp
    /\ UNCHANGED <<now, ret, visionClient, task, quoteReq>>

\* Mutant: the rejection is swallowed and the OCR text is used all the same.
OcrGroupFail_Swallowed(s, c) ==
    /\ c \in DOMAIN req[s].calls
    /\ req[s].calls[c] = "pending"
    /\ LET r == req[s]
           calls == [r.calls EXCEPT ![c] = "failed"]
           order == Append(r.order, c - 1)
       IN  IF r.pc = "ocr"
           THEN LET ocrText == OcrCleanedText(r.pdf, PageCount(r.pdf))
                    out == SegmentOrReturn(
                               cachePdfContent(pdfCache, r.url, ocrText, TRUE, now),
                               now, r.url, r.title, PageCount(r.pdf), ocrText, TRUE)
                IN  Respond(s, out, calls, order)
           ELSE /\ req' = [req EXCEPT ![s].calls = calls, ![s].order = order]
                /\ extractResp' = NoResp
                /\ UNCHANGED pdfCache
    /\ segResp' = NoSegResp
    /\ UNCHANGED <<now, ret, visionClient, task, quoteReq>>

\* One batchAnnotateFiles call rejects.  The first rejection rejects
\* Promise.all: the handler logs 'OCR failed' and goes on with the text the
\* parser extracted.
OcrGroupFail(s, c) ==
    /\ c \in DOMAIN req[s].calls
    /\ req[s].calls[c] = "pending"
    /\ LET r == req[s]
           calls == [r.calls EXCEPT ![c] = "failed"]
           order == Append(r.order, c - 1)
       IN  IF r.pc = "ocr"
           THEN LET out == SegmentOrReturn(pdfCache, now, r.url, r.title,
                                           PageCount(r.pdf), ExtractedText(r.pdf),
                                           FALSE)
                IN  Respond(s, out, calls, order)
           ELSE /\ req' = [req EXCEPT ![s].calls = calls, ![s].order = order]
                /\ extractResp' = NoResp
                /\ UNCHANGED pdfCache
    /\ segResp' = NoSegResp
    /\ UNCHANGED <<now, ret, visionClient, task, quoteReq>>

\* The handler of /api/get-pdf-segment, start to end.
GetPdfSegment(body) ==
    LET out == getPdfSegment(pdfCache, body, now)
    IN  /\ pdfCache' = out.cache
        /\ segResp' = out.resp
        /\ extractResp' = NoResp
        /\ UNCHANGED <<now, ret, visionClient, task, quoteReq, req>>

\* -------------------------------------------------------- /api/find-quotes
\* String.prototype.toLowerCase
ToLowerCase(str) ==
    [i \in 1..Len(str) |-> IF str[i] >= Upper(2) THEN str[i] - 200 ELSE str[i]]

\* String.prototype.includes
Includes(str, sub) ==
    \E i \in 0..(Len(str) - Len(sub)) : SubSeq(str, i + 1, i + Len(sub)) = sub

IsNotLowerAlnum(c) == ~IsLowerAlnum(c)

\* str.split(/[^a-z0-9]+/): the pieces between the runs of characters that
\* are no lower-case letters or digits, the empty pieces at either end
\* included.
RECURSIVE SplitRuns(_, _)
SplitRuns(str, piece) ==
    IF str = <<>> THEN <<piece>>
    ELSE IF IsNotLowerAlnum(Head(str))
    THEN IF Len(str) > 1 /\ IsNotLowerAlnum(str[2])
         THEN SplitRuns(Tail(str), piece)
         ELSE <<piece>> \o SplitRuns(Tail(str), <<>>)
    ELSE SplitRuns(Tail(str), Append(piece, Head(str)))

\* topic.toLowerCase().split(/[^a-z0-9]+/).filter(w => w && w.length > 2)
Keywords(topic) ==
    SelectSeq(SplitRuns(ToLowerCase(topic), <<>>),
              LAMBDA w : Len(w) > KEYWORD_MIN_LEN)

\* textContent.split(/(?<=[.!?])\s+/): cut at every run of whitespace that
\* follows a sentence-ending mark; the whitespace is dropped.
RECURSIVE SplitSentences(_, _)
SplitSentences(str, piece) ==
    IF str = <<>> THEN <<piece>>
    ELSE IF IsWhitespace(Head(str)) /\ piece /= <<>> /\ piece[Len(piece)] = Period
    THEN <<piece>> \o SplitSentences(DropWhile(str, {Space, Newline}), <<>>)
    ELSE SplitSentences(Tail(str), Append(piece, Head(str)))

\* String(pageContent).slice(0, MAX_CHARS), whitespace collapsed and trimmed
TextContent(pageContent) ==
    Trim(ReplaceRuns(Substring(pageContent, 0, MAX_CHARS), {Space, Newline}))

\* textContent.split(...).map(s => s.trim()): the trimmed pieces.
Units(pageContent) ==
    CHOOSE units \in
        {[i \in 1..Len(pieces) |-> Trim(pieces[i])] :
            pieces \in {SplitSentences(TextContent(pageContent), <<>>)}} : TRUE

\* The sentences: the trimmed pieces longer than MIN_SENTENCE_LEN characters.
Sentences(pageContent) ==
    SelectSeq(Units(pageContent), LAMBDA p : Len(p) > MIN_SENTENCE_LEN)

\* s.split(' ').length
WordCount(str) == Len(SelectSeq(str, LAMBDA c : c = Space)) + 1

\* fuse.search(topic) is modelled by its result: a function from the indices
\* of the matched sentences to their Fuse scores, in tenths.
\* fuzzyScoreBySentence.get(s) || 0, in tenths: the map is keyed by the text
\* of the sentence and keeps the largest weight 1 - min(1, score).
Fuzzy(sentences, searchResults, str) ==
    LET weights == {10 - Min(10, searchResults[i]) :
                       i \in {j \in DOMAIN searchResults : sentences[j + 1] = str}}
    IN  IF weights = {} THEN 0
        ELSE CHOOSE w \in weights : \A v \in weights : v <= w

\* keywords.reduce((acc, k) => acc + (lower.includes(k) ? 1 : 0), 0)
KeywordHits(keywords, lower) ==
    Len(SelectSeq(keywords, LAMBDA k : Includes(lower, k)))

\* Mutant: an exact topic match weighs 0.1 instead of 3.0.
ScoredEntry_LightTopicMatch(topic, keywords, sentences, searchResults, idx) ==
    LET str == sentences[idx + 1]
        lower == ToLowerCase(str)
        keywordHits == KeywordHits(keywords, lower)
        fuzzy == Fuzzy(sentences, searchResults, str)
        lengthOk == IF Len(str) >= minLen /\ Len(str) <= maxLen THEN 10 ELSE 5
        n == IF Len(sentences) = 0 THEN 1 ELSE Len(sentences)
        w == Max(1, WordCount(str))
        exactTopicMatch == IF Includes(lower, ToLowerCase(topic)) THEN 2 ELSE 0
    IN  [s |-> str, idx |-> idx, keywordHits |-> keywordHits, fuzzy |-> fuzzy,
         exactTopicMatch |-> exactTopicMatch,
         num |-> 2000 * keywordHits * n * w + 150 * fuzzy * n * w
                 + 100 * exactTopicMatch * n * w + 10000 * keywordHits * n
                 + 30 * lengthOk * n * w
                 + 10 * w * (10 * n - Min(8 * n, 10 * idx)),
         den |-> 1000 * n * w]

\* One element of scored.  The score is the fraction num / den with
\* den = 1000 * n * w, for n sentences and w = max(1, words); fuzzy is in
\* tenths.
ScoredEntry(topic, keywords, sentences, searchResults, idx) ==
    LET str == sentences[idx + 1]
        lower == ToLowerCase(str)
        keywordHits == KeywordHits(keywords, lower)
        fuzzy == Fuzzy(sentences, searchResults, str)
        lengthOk == IF Len(str) >= minLen /\ Len(str) <= maxLen THEN 10 ELSE 5
        n == IF Len(sentences) = 0 THEN 1 ELSE Len(sentences)
        w == Max(1, WordCount(str))
        exactTopicMatch == IF Includes(lower, ToLowerCase(topic)) THEN 2 ELSE 0
    IN  [s |-> str, idx |-> idx, keywordHits |-> keywordHits, fuzzy |-> fuzzy,
         exactTopicMatch |-> exactTopicMatch,
         num |-> 2000 * keywordHits * n * w + 150 * fuzzy * n * w
                 + 3000 * exactTopicMatch * n * w + 10000 * keywordHits * n
                 + 30 * lengthOk * n * w
                 + 10 * w * (10 * n - Min(8 * n, 10 * idx)),
         den |-> 1000 * n * w]

Scored(topic, keywords, sentences, searchResults) ==
    [i \in 1..Len(sentences) |->
        ScoredEntry(topic, keywords, sentences, searchResults, i - 1)]

\* a.score > b.score
ScoreAbove(a, b) == a.num * b.den > b.num * a.den

\* scored.sort((a, b) => b.score - a.score): descending, equal scores keep
\* their order.  The entry that goes to place k is the one with k - 1
\* entries ahead of it.
SortByScore(scored) ==
    LET ahead(i) == {j \in DOMAIN scored :
                        \/ ScoreAbove(scored[j], scored[i])
                        \/ ~ScoreAbove(scored[i], scored[j]) /\ j < i}
    IN  [k \in 1..Len(scored) |->
            scored[CHOOSE i \in DOMAIN scored : Cardinality(ahead(i)) = k - 1]]

\* The first filter: any relevance signal, or score > 0.8.
HasSignal(e) ==
    \/ e.exactTopicMatch > 0
    \/ e.keywordHits > 0
    \/ e.fuzzy >= 3
    \/ 10 * e.num > 8 * e.den

\* Mutant: no relaxation to score > 0 when the filter keeps nothing.
Filtered_NoRelax(scored) == SelectSeq(scored, HasSignal)

\* filtered: the entries with a signal or, when there is none, the entries
\* with score > 0.
Filtered(scored) ==
    IF \E i \in DOMAIN scored : HasSignal(scored[i])
    THEN SelectSeq(scored, HasSignal)
    ELSE SelectSeq(scored, LAMBDA e : e.num > 0)

PickEntry_Unchecked(idx, n, picked) == picked \o <<idx, idx - 1, idx + 1>>

\* One round of the walk over filtered: an entry not yet used is picked,
\* then its neighbours before and after when they exist and are not used.
PickEntry(idx, n, picked) ==
    LET used(p, i) == \E j \in DOMAIN p : p[j] = i
        p1 == Append(picked, idx)
        p2 == IF idx - 1 >= 0 /\ ~used(p1, idx - 1)
              THEN Append(p1, idx - 1) ELSE p1
    IN  IF used(picked, idx) THEN picked
        ELSE IF idx + 1 < n /\ ~used(p2, idx + 1)
        THEN Append(p2, idx + 1) ELSE p2

\* The walk, from entry i of filtered on (each round's result is bound to a
\* value before the next round uses it).
RECURSIVE PickFrom(_, _, _, _)
PickFrom(filtered, i, n, picked) ==
    IF i > Len(filtered) THEN picked
    ELSE CHOOSE result \in {PickFrom(filtered, i + 1, n, next) :
                               next \in {PickEntry(filtered[i].idx, n, picked)}} : TRUE

SortAscending_Unsorted(picked) == picked

RECURSIVE InsertAscending(_, _)
InsertAscending(i, sorted) ==
    IF sorted = <<>> THEN <<i>>
    ELSE IF i < Head(sorted) THEN <<i>> \o sorted
    ELSE <<Head(sorted)>> \o InsertAscending(i, Tail(sorted))

\* picked.sort((a, b) => a - b)
RECURSIVE SortAscending(_)
SortAscending(picked) ==
    IF picked = <<>> THEN <<>>
    ELSE InsertAscending(picked[Len(picked)],
                         SortAscending(SubSeq(picked, 1, Len(picked) - 1)))

\* picked.map(idx => sentences[idx]).filter(Boolean): an index outside the
\* array reads as undefined, which the filter drops like an empty string.
RelevantQuotes(sentences, picked) ==
    SelectSeq([i \in 1..Len(picked) |->
                  IF picked[i] + 1 \in DOMAIN sentences
                  THEN sentences[picked[i] + 1] ELSE <<>>],
              LAMBDA q : q /= <<>>)

\* The request in flight: where its handler stands ("refining" while it
\* awaits the completion API), what it computed, how many times it called the
\* completion API, the content the API answered with, and its response.
NoQuoteReq == [pc |-> "idle", topic |-> <<>>, pageContent |-> <<>>,
               sentences |-> <<>>,
               searchResults |-> <<>>, scored |-> <<>>, filtered |-> <<>>,
               walked |-> <<>>, picked |-> <<>>, relevantQuotes |-> <<>>,
               calls |-> 0, content |-> [kind |-> "none"], status |-> 0,
               quotes |-> <<>>, message |-> ""]

NoRelevanceSignal_Never(scored, searchResults) == FALSE

\* !hasKeywordSignal && !hasFuzzySignal
NoRelevanceSignal(scored, searchResults) ==
    LET hasKeywordSignal == \E i \in DOMAIN scored : scored[i].keywordHits > 0
        hasFuzzySignal == DOMAIN searchResults /= {}
    IN  ~hasKeywordSignal /\ ~hasFuzzySignal

\* The handler of /api/find-quotes up to its response or its await of
\* openai.chat.completions.create.  filtered and walked are kept as lists of
\* sentence indices: the filtered entries in score order, and picked before
\* it is sorted.
FindQuotes(body, searchResults) ==
    /\ quoteReq.pc = "idle"
    /\ \E sentences \in {Sentences(body.pageContent)} :
       \E scored \in {Scored(body.topic, Keywords(body.topic), sentences,
                             searchResults)} :
       \E filtered \in {Filtered(SortByScore(scored))} :
       \E walked \in {PickFrom(filtered, 1, Len(sentences), <<>>)} :
       \E picked \in {SortAscending(walked)} :
       \E relevantQuotes \in {RelevantQuotes(sentences, picked)} :
          LET computed == [NoQuoteReq EXCEPT !.topic = body.topic,
                                             !.pageContent = body.pageContent,
                                             !.sentences = sentences,
                                             !.searchResults = searchResults,
                                             !.scored = scored]
              empty == [computed EXCEPT !.pc = "done", !.status = 200,
                                        !.message = "No relevant quotes found"]
              selected == [computed EXCEPT
                              !.filtered = [i \in 1..Len(filtered) |-> filtered[i].idx],
                              !.walked = walked,
                              !.picked = picked,
                              !.relevantQuotes = relevantQuotes]
          IN  /\ DOMAIN searchResults \subseteq 0..(Len(sentences) - 1)
              /\ quoteReq' =
                    IF body.topic = <<>> \/ body.pageContent = <<>>
                    THEN [NoQuoteReq EXCEPT !.pc = "done", !.status = 400,
                             !.message = "Topic and page content are required"]
                    ELSE IF NoRelevanceSignal(scored, searchResults) THEN empty
                    ELSE IF filtered = <<>> THEN empty
                    ELSE IF relevantQuotes = <<>>
                    THEN [selected EXCEPT !.pc = "done", !.status = 200,
                                          !.message = "No relevant quotes found"]
                    ELSE [selected EXCEPT !.pc = "refining", !.calls = 1]
    /\ UNCHANGED <<cacheVars, visionClient, task, req, extractResp, segResp>>

\* The completion's message content as the handler reads it: missing, or a
\* text, possibly inside a markdown fence, that is JSON or is not.
\* rawContent.replace(...) cuts the fence off; JSON.parse of the rest.
ParsedContent(content) ==
    IF content.kind = "json" THEN [ok |-> TRUE, value |-> content.value]
    ELSE [ok |-> FALSE, value |-> <<>>]

\* analyzedQuotes.map(...): throws unless the value is an array whose items
\* are not null.  quote is item.quote || item, relevance is item.relevance
\* or the numbered default; an absent field is modelled as <<>>, and an
\* item that is passed on as the quote without being a string as NotText.
MapsWithoutThrowing(value) ==
    /\ value.type = "array"
    /\ \A i \in DOMAIN value.items : value.items[i].type /= "null"

NotText == <<-1>>

AnalyzedQuotes(value) ==
    [i \in 1..Len(value.items) |->
        LET item == value.items[i]
        IN  [quote |-> IF item.type = "object" /\ item.quote /= <<>>
                       THEN item.quote
                       ELSE IF item.type = "string" THEN item.value
                       ELSE NotText,
             relevance |-> IF item.type = "object" /\ item.relevance /= <<>>
                           THEN item.relevance
                           ELSE <<"AI-analyzed quote #", i>>]]

FallbackQuotes_Nothing(relevantQuotes) == <<>>

\* The catch block: the selected sentences, numbered from 1.
FallbackQuotes(relevantQuotes) ==
    [i \in 1..Len(relevantQuotes) |->
        [quote |-> relevantQuotes[i],
         relevance |-> <<"Selected based on topic relevance and text analysis #", i>>]]

\* openai.chat.completions.create resolves: parse, fall back on any throw,
\* answer.
CompletionReturn(content) ==
    /\ quoteReq.pc = "refining"
    /\ LET parsed == ParsedContent(content)
       IN  quoteReq' = [quoteReq EXCEPT
               !.pc = "done", !.status = 200, !.content = content,
               !.quotes = IF content.kind /= "missing" /\ parsed.ok
                             /\ MapsWithoutThrowing(parsed.value)
                          THEN AnalyzedQuotes(parsed.value)
                          ELSE FallbackQuotes(quoteReq.relevantQuotes)]
    /\ UNCHANGED <<cacheVars, visionClient, task, req, extractResp, segResp>>

\* openai.chat.completions.create rejects: the outer catch answers 500.
CompletionFail ==
    /\ quoteReq.pc = "refining"
    /\ quoteReq' = [quoteReq EXCEPT !.pc = "done", !.status = 500,
                                    !.message = "Failed to analyze quotes"]
    /\ UNCHANGED <<cacheVars, visionClient, task, req, extractResp, segResp>>

\* ------------------------------------------------- the cache, called freely
NoCall == [op |-> "none", key |-> Undef, content |-> <<>>, isOCR |-> FALSE,
           log |-> "none", removed |-> {}, cached |-> Miss]

CacheInit ==
    /\ pdfCache = <<>>
    /\ now = 0
    /\ ret = NoCall
    /\ visionClient = FALSE
    /\ req = <<>>
    /\ extractResp = NoResp
    /\ segResp = NoSegResp
    /\ quoteReq = NoQuoteReq
    /\ task = NoTask

Tick ==
    /\ now < MaxClock
    /\ now' = now + 1
    /\ UNCHANGED <<pdfCache, ret, visionClient, task, quoteReq, req>>
    /\ extractResp' = NoResp
    /\ segResp' = NoSegResp

CallPut(k, c, o) ==
    /\ pdfCache' = cachePdfContent(pdfCache, k, c, o, now)
    /\ ret' = [op |-> "put", key |-> k, content |-> c, isOCR |-> o,
               log |-> "none", removed |-> RemovedExpired(pdfCache, now),
               cached |-> Miss]
    /\ UNCHANGED <<now, visionClient, task, quoteReq, req, extractResp, segResp>>

CallGet(k) ==
    LET r == getCachedPdfContent(pdfCache, k, now)
    IN  /\ pdfCache' = r.cache
        /\ ret' = [op |-> "get", key |-> k, content |-> <<>>, isOCR |-> FALSE,
                   log |-> r.log, removed |-> {}, cached |-> r.cached]
        /\ UNCHANGED <<now, visionClient, task, quoteReq, req, extractResp, segResp>>

CacheNext ==
    \/ Tick
    \/ \E k \in Keys, p \in Payloads : CallPut(k, p.content, p.isOCR)
    \/ \E k \in Keys : CallGet(k)

CacheSpec == CacheInit /\ [][CacheNext]_vars

\* The same calls, each stored content being the clock value at which it is
\* stored, so that a returned content tells when it was put.
StampKeys == {UrlKey("u1"), Undef}

StampNext ==
    \/ Tick
    \/ \E k \in StampKeys, o \in BOOLEAN : CallPut(k, <<now>>, o)
    \/ \E k \in StampKeys : CallGet(k)

StampSpec == CacheInit /\ [][StampNext]_vars

\* The callbacks of concurrent requests calling the cache, statement by
\* statement.  The clock is read as one value throughout a call, and every
\* put stores the same payload.
LoopPayload == [content |-> <<2, 3, 4>>, isOCR |-> TRUE]

LoopNext ==
    \/ /\ task.running = 0
       /\ now < MaxLoopClock
       /\ Tick
    \/ \E c \in Callbacks, k \in Keys :
          Dispatch(c, "put", k, LoopPayload.content, LoopPayload.isOCR)
    \/ \E c \in Callbacks, k \in Keys : Dispatch(c, "get", k, <<>>, FALSE)
    \/ \E c \in Callbacks :
          \/ PutSweep(c)
          \/ PutEvict(c)
          \/ PutSet(c)
          \/ GetLookup(c)
          \/ GetExpiry(c)
          \/ GetRefresh(c)

LoopSpec == CacheInit /\ [][LoopNext]_vars

\* ------------------------------------------------------------- the server
TextLarge == [pages |-> << << <<2, 3>>, <<4>> >> >>, ocr |-> << <<>> >>,
              blank |-> {1}, corrupt |-> FALSE]
TextSmall == [pages |-> << << <<7>> >> >>, ocr |-> << <<>> >>,
              blank |-> {1}, corrupt |-> FALSE]
ScannedSmall == [pages |-> << <<>> >>, ocr |-> << <<5>> >>,
                 blank |-> {}, corrupt |-> FALSE]
ScannedLarge == [pages |-> [p \in 1..6 |-> <<>>],
                 ocr |-> [p \in 1..6 |-> IF p = 1 THEN <<11>>
                                         ELSE IF p = 6 THEN <<13, Newline, 17>>
                                         ELSE <<>>],
                 blank |-> {2, 3, 4, 5}, corrupt |-> FALSE]
ScannedHuge == [pages |-> [p \in 1..(OCR_PAGE_LIMIT + 1) |-> <<>>],
                ocr |-> [p \in 1..(OCR_PAGE_LIMIT + 1) |-> <<>>],
                blank |-> 1..(OCR_PAGE_LIMIT + 1), corrupt |-> FALSE]
CorruptPdf == [NoPdf EXCEPT !.corrupt = TRUE]

Slots == {1}

\* The PDFs found at the remote URL and the PDFs sent as local files.
RemotePdfs == {TextLarge, ScannedSmall, CorruptPdf}
LocalPdfs == {TextSmall, ScannedLarge, ScannedHuge}

\* The request bodies of /api/extract-pdf: a remote URL, a local file sent
\* without url (as the extension sends it), and two malformed ones.
ExtractBodies ==
    {[url |-> UrlKey("u1"), title |-> "t1", hasFile |-> FALSE, file |-> NoPdf,
      isLocalFile |-> FALSE]}
    \cup {[url |-> Undef, title |-> "t1", hasFile |-> TRUE, file |-> pdf,
           isLocalFile |-> TRUE] : pdf \in LocalPdfs}
    \cup {[url |-> Undef, title |-> "t1", hasFile |-> FALSE, file |-> NoPdf,
           isLocalFile |-> FALSE],
          [url |-> FileUrl, title |-> "t1", hasFile |-> FALSE, file |-> NoPdf,
           isLocalFile |-> FALSE]}

\* What axios.get answers: a PDF, or an error.  Only a request that has no
\* local file and names a URL other than file:// downloads.
NoDownload == [ok |-> FALSE, pdf |-> NoPdf]
Downloads == {[ok |-> TRUE, pdf |-> pdf] : pdf \in RemotePdfs} \cup {NoDownload}
IsRemote(body) ==
    ~(body.hasFile /\ body.isLocalFile) /\ body.url /= Undef /\ body.url /= FileUrl

\* The keys /api/get-pdf-segment is asked for: the URL, the key of the large
\* local file, and a missing pdfUrl.
SegmentKeys ==
    {UrlKey("u1"), Undef,
     CacheKey(Undef, "t1", OcrCleanedText(ScannedLarge, PageCount(ScannedLarge)))}

SegmentBodies ==
    [pdfUrl : SegmentKeys \ {Undef}, hasIndex : {TRUE},
     segmentIndex : 0..MaxSegmentIndex]
    \cup {[pdfUrl |-> Undef, hasIndex |-> TRUE, segmentIndex |-> 0],
          [pdfUrl |-> UrlKey("u1"), hasIndex |-> FALSE, segmentIndex |-> 0]}

Init ==
    /\ pdfCache = <<>>
    /\ now = 0
    /\ ret = NoCall
    /\ visionClient \in BOOLEAN
    /\ req = [s \in Slots |-> IdleReq]
    /\ extractResp = NoResp
    /\ segResp = NoSegResp
    /\ quoteReq = NoQuoteReq
    /\ task = NoTask

Next ==
    \/ Tick
    \/ \E s \in Slots, body \in ExtractBodies :
          \E download \in (IF IsRemote(body) THEN Downloads ELSE {NoDownload}) :
             ExtractPdf(s, body, download)
    \/ \E s \in Slots : ParserDataError(s)
    \/ \E s \in Slots : ParserDataReady(s)
    \/ \E s \in Slots, c \in 1..(OCR_PAGE_LIMIT \div PAGES_PER_REQUEST) :
          OcrGroupReturn(s, c)
    \/ \E s \in Slots, c \in 1..(OCR_PAGE_LIMIT \div PAGES_PER_REQUEST) :
          OcrGroupFail(s, c)
    \/ \E body \in SegmentBodies : GetPdfSegment(body)

Spec == Init /\ [][Next]_vars

\* The same server with the parser and the OCR calls sure to call back: a
\* request that waits for one of them does not wait forever.
LiveSpec ==
    /\ Init
    /\ [][Next]_vars
    /\ \A s \in Slots :
          /\ WF_vars(ParserDataError(s))
          /\ WF_vars(ParserDataReady(s))
          /\ WF_vars(\E c \in 1..(OCR_PAGE_LIMIT \div PAGES_PER_REQUEST) :
                        OcrGroupReturn(s, c) \/ OcrGroupFail(s, c))

\* ------------------------------------- ingestion and segments, by themselves
\* The text of n characters 2, 3, ..., n + 1.
TextOfLength(n) == [i \in 1..n |-> i + 1]

\* The end of the data-ready handler, run on a text of any length up to
\* MaxTextLen for a remote URL or a local file.
Ingest(url, text, ocrWasUsed) ==
    LET out == SegmentOrReturn(pdfCache, now, url, "t1", 1, text, ocrWasUsed)
    IN  /\ pdfCache' = out.cache
        /\ extractResp' = out.resp
        /\ segResp' = NoSegResp
        /\ UNCHANGED <<now, ret, visionClient, task, quoteReq, req>>

IngestKeys == {UrlKey("u1"), CacheKey(Undef, "t1", TextOfLength(MaxTextLen))}

IngestInit ==
    /\ pdfCache = <<>>
    /\ now = 0
    /\ ret = NoCall
    /\ visionClient = FALSE
    /\ req = [s \in Slots |-> IdleReq]
    /\ extractResp = NoResp
    /\ segResp = NoSegResp
    /\ quoteReq = NoQuoteReq
    /\ task = NoTask

IngestNext ==
    \/ Tick
    \/ \E url \in {UrlKey("u1"), Undef}, n \in 0..MaxTextLen :
          Ingest(url, TextOfLength(n), FALSE)
    \/ \E k \in IngestKeys, i \in 0..MaxSegmentIndex :
          GetPdfSegment([pdfUrl |-> k, hasIndex |-> TRUE, segmentIndex |-> i])

IngestSpec == IngestInit /\ [][IngestNext]_vars

\* ------------------------------------------------ /api/find-quotes, alone
\* Topics: "abc", "Ab" (no keyword: too short), "abc de", "abc abc" and the
\* empty one.
Topics == {<<2, 3, 4>>, <<Upper(2), 3>>, <<2, 3, 4, Space, 5, 6>>,
           <<2, 3, 4, Space, 2, 3, 4>>, <<>>}

\* Page contents: "ggg. abc de. hhh. gABg.", "ggg. hhh hhh hhh.",
\* "abcd. ggg. abcd." (a sentence twice), "ab." (too short to be a
\* sentence), "gg.g \n abc.  hhhh" (whitespace runs, a mark inside a word, a
\* tail cut by MAX_CHARS), "hhh. ggg. ggg. gABg ggg." (the topic in the
\* last sentence, which is longer than maxLen) and the empty one.
PageContents ==
    {<<8, 8, 8, Period, Space, 2, 3, 4, Space, 5, 6, Period, Space, 9, 9, 9,
       Period, Space, 8, Upper(2), Upper(3), 8, Period>>,
     <<8, 8, 8, Period, Space, 9, 9, 9, Space, 9, 9, 9, Space, 9, 9, 9, Period>>,
     <<2, 3, 4, 5, Period, Space, 8, 8, 8, Period, Space, 2, 3, 4, 5, Period>>,
     <<2, 3, Period>>,
     <<9, 9, 9, Period, Space, 8, 8, 8, Period, Space, 8, 8, 8, Period, Space,
       8, Upper(2), Upper(3), 8, Space, 8, 8, 8, Period>>,
     <<8, 8, Period, 8, Space, Newline, Space, 2, 3, 4, Period, Space, Space,
       9, 9, 9, 9, Period, Space, 8, 8, 8, 8, 8, 8, 8>>,
     <<>>}

\* The Fuse scores of the matches, in tenths.  The handler takes any score
\* and clamps it at 1; 0.8 leaves a fuzzy weight below the 0.3 of the filter.
FuseScores == {0, 6, 8}

\* What fuse.search may return on n sentences.
SearchResults(n) ==
    UNION {[matched -> FuseScores] : matched \in SUBSET (0..(n - 1))}

\* What the completion's message content may be for the selected sentences.
JsonObject(quote, relevance) ==
    [type |-> "object", quote |-> quote, relevance |-> relevance]
Contents(relevantQuotes) ==
    {[kind |-> "missing", fence |-> "none", value |-> <<>>],
     [kind |-> "text", fence |-> "none", value |-> <<>>],
     [kind |-> "text", fence |-> "json", value |-> <<>>],
     [kind |-> "json", fence |-> "none", value |-> JsonObject(<<>>, <<>>)],
     [kind |-> "json", fence |-> "none", value |-> [type |-> "null"]]}
    \cup {[kind |-> "json", fence |-> f, value |-> [type |-> "array", items |-> items]] :
             f \in {"none", "json"},
             items \in {<<>>,
                        <<[type |-> "string", value |-> relevantQuotes[1]]>>,
                        <<JsonObject(relevantQuotes[1], <<"why">>)>>,
                        <<JsonObject(relevantQuotes[1], <<>>),
                          JsonObject(<<>>, <<>>)>>,
                        <<JsonObject(relevantQuotes[1], <<"why">>),
                          [type |-> "null"]>>,
                        <<[type |-> "number"]>>}}

RankInit ==
    /\ pdfCache = <<>>
    /\ now = 0
    /\ ret = NoCall
    /\ visionClient = FALSE
    /\ req = [s \in Slots |-> IdleReq]
    /\ extractResp = NoResp
    /\ segResp = NoSegResp
    /\ quoteReq = NoQuoteReq
    /\ task = NoTask

RankNext ==
    \/ \E body \in [topic : Topics, pageContent : PageContents] :
          \E n \in {Len(Sentences(body.pageContent))} :
             \E searchResults \in SearchResults(n) :
                FindQuotes(body, searchResults)
    \/ /\ quoteReq.pc = "refining"
       /\ \E content \in Contents(quoteReq.relevantQuotes) :
             CompletionReturn(content)
    \/ CompletionFail

RankSpec == RankInit /\ [][RankNext]_vars

\* ------------------------------------------- the OCR fan-out, run by itself
\* A scanned PDF of n pages whose page p reads as the single character
\* 10 + p, so that the order of the pages can be read off the OCR text.
NumberedPdf(n) == [pages |-> [p \in 1..n |-> <<>>],
                   ocr |-> [p \in 1..n |-> <<10 + p>>],
                   blank |-> {}, corrupt |-> FALSE]

OcrInit ==
    /\ pdfCache = <<>>
    /\ now = 0
    /\ ret = NoCall
    /\ visionClient = TRUE
    /\ \E n \in 1..MaxPages :
          req = [s \in Slots |-> [IdleReq EXCEPT !.pc = "parsing",
                                                 !.url = UrlKey("u1"),
                                                 !.title = "t1",
                                                 !.pdf = NumberedPdf(n)]]
    /\ extractResp = NoResp
    /\ segResp = NoSegResp
    /\ quoteReq = NoQuoteReq
    /\ task = NoTask

OcrNext ==
    \/ \E s \in Slots : ParserDataReady(s)
    \/ \E s \in Slots, c \in 1..(OCR_PAGE_LIMIT \div PAGES_PER_REQUEST) :
          OcrGroupReturn(s, c)
    \/ \E s \in Slots, c \in 1..(OCR_PAGE_LIMIT \div PAGES_PER_REQUEST) :
          OcrGroupFail(s, c)

OcrSpec == OcrInit /\ [][OcrNext]_vars

\* --------------------------- two requests for one scanned document at once
\* Both requests name the same URL and have downloaded the same scanned PDF;
\* the parser of each is about to call back and the cache is empty.
PairSlots == {1, 2}
PairPdfs == {ScannedSmall, ScannedLarge}

PairInit ==
    /\ pdfCache = <<>>
    /\ now = 0
    /\ ret = NoCall
    /\ visionClient = TRUE
    /\ \E pdf \in PairPdfs :
          req = [s \in PairSlots |-> [IdleReq EXCEPT !.pc = "parsing",
                                                     !.url = UrlKey("u1"),
                                                     !.title = "t1",
                                                     !.pdf = pdf]]
    /\ extractResp = NoResp
    /\ segResp = NoSegResp
    /\ quoteReq = NoQuoteReq
    /\ task = NoTask

PairNext ==
    \/ Tick
    \/ \E s \in PairSlots : ParserDataReady(s)
    \/ \E s \in PairSlots, c \in 1..(OCR_PAGE_LIMIT \div PAGES_PER_REQUEST) :
          OcrGroupReturn(s, c)
    \/ \E s \in PairSlots, c \in 1..(OCR_PAGE_LIMIT \div PAGES_PER_REQUEST) :
          OcrGroupFail(s, c)

PairSpec == PairInit /\ [][PairNext]_vars

\* ================================================================= claims

AllUnexpired(cache, t) == \A i \in 1..Len(cache) : ~Expired(cache[i], t)

\* C1: the cache map never holds more than MAX_CACHE_SIZE entries.
C1_SizeBounded == Len(pdfCache) <= MAX_CACHE_SIZE

\* C2: a put of a new key into a cache holding MAX_CACHE_SIZE unexpired
\* entries evicts exactly one entry, and no other entry has a timestamp
\* older than the evicted one's.
C2_EvictsLeastRecentlyUsed ==
    [][\A k \in Keys, p \in Payloads :
        (/\ CallPut(k, p.content, p.isOCR)
         /\ ~Has(pdfCache, k)
         /\ Len(pdfCache) = MAX_CACHE_SIZE
         /\ AllUnexpired(pdfCache, now))
        => \E v \in CacheKeys(pdfCache) :
              /\ CacheKeys(pdfCache') = (CacheKeys(pdfCache) \ {v}) \cup {k}
              /\ \A w \in CacheKeys(pdfCache) :
                    Entry(pdfCache, v).timestamp <= Entry(pdfCache, w).timestamp]_vars

\* C3: a get of a key whose entry is older than PDF_CACHE_DURATION reports a
\* miss and leaves the key out of the map, and a get of a key that is not in
\* the map (the follow-up get) reports a miss and leaves it out.
C3_ExpiredGetMissesAndEvicts ==
    [][\A k \in Keys :
        (/\ CallGet(k)
         /\ Has(pdfCache, k) => Expired(Entry(pdfCache, k), now))
        => /\ ~ret'.cached.hit
           /\ ~Has(pdfCache', k)]_vars

\* C3 witness: a get has just found its entry expired and removed it.
C3_Witness ==
    /\ ret.op = "get"
    /\ ret.log = "expired"
    /\ ~Has(pdfCache, ret.key)
    /\ pdfCache /= <<>>

\* C4: a get(k) that directly follows put(k, c, ocr), at the same clock value,
\* is a hit returning content c and isOCR ocr.
C4_PutThenGetRoundTrip ==
    [][(/\ ret.op = "put"
        /\ Has(pdfCache, ret.key)
        /\ Entry(pdfCache, ret.key).timestamp = now
        /\ CallGet(ret.key))
       => /\ ret'.cached.hit
          /\ ret'.cached.content = ret.content
          /\ ret'.cached.isOCR = ret.isOCR]_vars

\* C4 witness: a put of an OCR payload has just returned, at a clock value
\* past 0 and into a cache that held other entries.
C4_Witness ==
    /\ ret.op = "put"
    /\ ret.isOCR
    /\ now > 0
    /\ Entry(pdfCache, ret.key).timestamp = now
    /\ Len(pdfCache) >= MAX_CACHE_SIZE

\* C5: no get returns content that was stored more than PDF_CACHE_DURATION
\* before the get (under StampSpec a content is the clock value of its put).
C5_NoContentOlderThanDuration ==
    (ret.op = "get" /\ ret.cached.hit)
        => ret.cached.timestamp - ret.cached.content[1] <= PDF_CACHE_DURATION

\* Math.ceil(a / b) for a >= 0 and b > 0.
CeilDiv(a, b) == (a + b - 1) \div b

\* The responses to the requests for segments i .. n - 1 of key k, sent in
\* this order, each handled on the map the one before left.
RECURSIVE SegmentFetches(_, _, _, _, _)
SegmentFetches(cache, k, i, n, t) ==
    IF i >= n THEN <<>>
    ELSE LET out == getPdfSegment(cache, [pdfUrl |-> k, hasIndex |-> TRUE,
                                          segmentIndex |-> i], t)
         IN  <<out.resp>> \o SegmentFetches(out.cache, k, i + 1, n, t)

RECURSIVE ConcatContents(_)
ConcatContents(resps) ==
    IF resps = <<>> THEN <<>>
    ELSE Head(resps).content \o ConcatContents(Tail(resps))

\* C6: for every live cache entry with a key a client can name and a content
\* of L > SEGMENT_SIZE characters, the segments 0 .. ceil(L / SEGMENT_SIZE) - 1
\* fetched in order are all served, start where the one before ended, run
\* from 0 to L, and concatenate to the content.
C6_SegmentsReassemble ==
    \A j \in DOMAIN pdfCache :
        LET e == pdfCache[j]
            L == Len(e.content)
            n == CeilDiv(L, SEGMENT_SIZE)
            resps == SegmentFetches(pdfCache, e.key, 0, n, now)
        IN  (e.key /= Undef /\ ~Expired(e, now) /\ L > SEGMENT_SIZE)
            => /\ Len(resps) = n
               /\ \A i \in 1..n :
                     /\ resps[i].status = 200
                     /\ Len(resps[i].content) = resps[i].end - resps[i].start
               /\ resps[1].start = 0
               /\ resps[n].end = L
               /\ \A i \in 1..(n - 1) : resps[i].end = resps[i + 1].start
               /\ ConcatContents(resps) = e.content

\* C6 witness: the last, one-character segment of the longest text has just
\* been served from its live entry.
C6_Witness ==
    /\ segResp.status = 200
    /\ segResp.segmentIndex = CeilDiv(MaxTextLen, SEGMENT_SIZE) - 1
    /\ segResp.content = <<MaxTextLen + 1>>
    /\ \E j \in DOMAIN pdfCache : pdfCache[j].content = TextOfLength(MaxTextLen)

\* The (key, content) pairs a map holds.
Pairs(cache) == {<<cache[i].key, cache[i].content>> : i \in DOMAIN cache}

\* This step answers the extract request of slot s with a normal result.
Answered(s) ==
    /\ req[s].pc \in {"parsing", "ocr"}
    /\ req'[s].pc = "idle"
    /\ extractResp'.status = 200
    /\ extractResp'.error = ""

\* The result is segment metadata for a text longer than SEGMENT_SIZE that
\* the map now holds under the key the result names.
AnsweredWithSegments ==
    /\ extractResp'.content = <<>>
    /\ extractResp'.totalLength > SEGMENT_SIZE
    /\ Has(pdfCache', extractResp'.url)
    /\ Len(Entry(pdfCache', extractResp'.url).content) = extractResp'.totalLength

\* C7 as stated: an extract request is answered with segment metadata and its
\* text cached when the text is longer than SEGMENT_SIZE; otherwise the text
\* is returned and handling the request creates no cache entry.
C7_CachesIffLarge ==
    [][\A s \in Slots :
        Answered(s) =>
            IF extractResp'.requiresSegmentation
            THEN AnsweredWithSegments
            ELSE /\ Len(extractResp'.content) <= SEGMENT_SIZE
                 /\ Pairs(pdfCache') \subseteq Pairs(pdfCache)]_vars

\* C7 amended: an extract request is answered with segment metadata and its
\* text cached when the text is longer than SEGMENT_SIZE; otherwise the text
\* is returned, and the only cache entry handling the request creates is
\* the OCR text it returns, stored under the request's url with isOCR set,
\* when OCR ran.
C7_CachesIffLargeOrOcr ==
    [][\A s \in Slots :
        Answered(s) =>
            IF extractResp'.requiresSegmentation
            THEN AnsweredWithSegments
            ELSE /\ Len(extractResp'.content) <= SEGMENT_SIZE
                 /\ \A p \in Pairs(pdfCache') \ Pairs(pdfCache) :
                       /\ req[s].pc = "ocr"
                       /\ extractResp'.isOCR
                       /\ p = <<req[s].url, extractResp'.content>>
                       /\ Entry(pdfCache', req[s].url).isOCR]_vars

\* C7 witness: a one-character OCR text has just been returned directly by
\* the request that ran the OCR, and the map holds it.
C7_Witness ==
    /\ extractResp.status = 200
    /\ ~extractResp.requiresSegmentation
    /\ extractResp.isOCR
    /\ extractResp.content = <<5>>
    /\ req[1].order = <<0>>
    /\ <<UrlKey("u1"), <<5>>>> \in Pairs(pdfCache)

\* C8: a well-formed segment request (k, i) is answered 404 without content
\* when k has no entry or an expired one, and otherwise 200 with the
\* characters i * SEGMENT_SIZE up to min((i + 1) * SEGMENT_SIZE, L) of the
\* entry's content of length L.
C8_FetchSegment ==
    [][segResp'.status \in {200, 404} =>
          LET k == segResp'.pdfUrl
              i == segResp'.segmentIndex
          IN  IF ~Has(pdfCache, k)
                 \/ now - Entry(pdfCache, k).timestamp > PDF_CACHE_DURATION
              THEN /\ segResp'.status = 404
                   /\ segResp'.content = <<>>
              ELSE LET c == Entry(pdfCache, k).content
                       lo == Min(i * SEGMENT_SIZE, Len(c))
                       hi == Min((i + 1) * SEGMENT_SIZE, Len(c))
                   IN  /\ segResp'.status = 200
                       /\ segResp'.content = [j \in 1..(hi - lo) |-> c[lo + j]]]_vars

\* C8 witness: a segment request has just been answered 404 because the
\* entry of its key had expired.
C8_Witness ==
    /\ segResp.status = 404
    /\ segResp.log = "expired"
    /\ now > PDF_CACHE_DURATION

\* C9: the segment metadata answered for a text of L > SEGMENT_SIZE characters
\* lists ceil(L / SEGMENT_SIZE) segments, the i-th with index i, start
\* i * SEGMENT_SIZE and end min((i + 1) * SEGMENT_SIZE, L); a text of 50001
\* characters cut at 50000 gives [0, 50000) and [50000, 50001).
C9_SegmentMetadata ==
    /\ extractResp.requiresSegmentation =>
          LET L == extractResp.totalLength
              segments == extractResp.segments
          IN  /\ L > SEGMENT_SIZE
              /\ Has(pdfCache, extractResp.url)
              /\ Len(Entry(pdfCache, extractResp.url).content) = L
              /\ extractResp.segmentCount = CeilDiv(L, SEGMENT_SIZE)
              /\ Len(segments) = CeilDiv(L, SEGMENT_SIZE)
              /\ \A i \in 0..(Len(segments) - 1) :
                    segments[i + 1] =
                        [index |-> i, start |-> i * SEGMENT_SIZE,
                         end |-> Min((i + 1) * SEGMENT_SIZE, L)]
    /\ CreateSegments(50001, 50000) =
          <<[index |-> 0, start |-> 0, end |-> 50000],
            [index |-> 1, start |-> 50000, end |-> 50001]>>

\* C9 witness: segment metadata has just been answered for a text one
\* character longer than two segments.
C9_Witness ==
    /\ extractResp.requiresSegmentation
    /\ extractResp.totalLength = 2 * SEGMENT_SIZE + 1
    /\ extractResp.segmentCount = 3

\* The OCR text of the n-page numbered PDF with its pages in ascending order.
PagesInOrder(n) ==
    [i \in 1..(2 * n - 1) |-> IF i % 2 = 1 THEN 10 + (i + 1) \div 2 ELSE Space]

\* C10: OCR of an N-page PDF issues ceil(N / PAGES_PER_REQUEST) calls, all of
\* them before any completes, and the text it yields has the pages in
\* ascending order whatever the order in which the calls completed.
C10_OcrCallsAndOrder ==
    \A s \in Slots :
        /\ req[s].pc = "ocr" =>
              /\ Len(req[s].calls) =
                    CeilDiv(PageCount(req[s].pdf), PAGES_PER_REQUEST)
              /\ req[s].order = <<>> =>
                    \A c \in DOMAIN req[s].calls : req[s].calls[c] = "pending"
        /\ (extractResp.status = 200 /\ extractResp.isOCR) =>
              /\ Len(req[s].calls) =
                    CeilDiv(extractResp.pageCount, PAGES_PER_REQUEST)
              /\ Has(pdfCache, UrlKey("u1"))
              /\ Entry(pdfCache, UrlKey("u1")).content =
                    PagesInOrder(extractResp.pageCount)

\* C10 witness: the OCR text of a 15-page PDF has just been answered after
\* its three calls completed in descending order.
C10_Witness ==
    /\ extractResp.status = 200
    /\ extractResp.isOCR
    /\ extractResp.pageCount = 3 * PAGES_PER_REQUEST
    /\ req[1].order = <<2, 1, 0>>

\* C11: the page ranges of the OCR requests partition 1..N: each is a
\* contiguous ascending run of 1 to PAGES_PER_REQUEST pages, every page of
\* 1..N is in exactly one range, the ranges are in ascending page order, and
\* there is one request per range.
C11_PageGroupsPartition ==
    \A s \in Slots :
        req[s].pc = "ocr" =>
            LET N == PageCount(req[s].pdf)
                chunks == PageChunks(N)
                places == {<<g, j>> \in (DOMAIN chunks) \X (1..PAGES_PER_REQUEST) :
                              j <= Len(chunks[g])}
            IN  /\ N >= 1
                /\ Len(req[s].calls) = Len(chunks)
                /\ \A g \in DOMAIN chunks :
                      /\ Len(chunks[g]) \in 1..PAGES_PER_REQUEST
                      /\ \A j \in 1..(Len(chunks[g]) - 1) :
                            chunks[g][j + 1] = chunks[g][j] + 1
                /\ \A pl \in places : chunks[pl[1]][pl[2]] \in 1..N
                /\ \A p \in 1..N :
                      Cardinality({pl \in places : chunks[pl[1]][pl[2]] = p}) = 1
                /\ \A g \in 1..(Len(chunks) - 1) :
                      chunks[g][Len(chunks[g])] < chunks[g + 1][1]

\* C11 witness: the requests for an 11-page PDF are out, three of them, the
\* last for page 11 alone.
C11_Witness ==
    /\ req[1].pc = "ocr"
    /\ PageCount(req[1].pdf) = 2 * PAGES_PER_REQUEST + 1
    /\ Len(req[1].calls) = 3
    /\ PageChunks(PageCount(req[1].pdf))[3] = <<2 * PAGES_PER_REQUEST + 1>>

\* The text holds a character read by OCR from a numbered PDF.
HasOcrText(text) == \E i \in DOMAIN text : text[i] > 10

\* C12: once one OCR call of a request has failed, no OCR text is in the
\* cache and the extract response is the parser's text, not marked as OCR,
\* whatever the other calls returned before or return afterwards.
C12_FailedGroupFailsOcr ==
    \A s \in Slots :
        (\E c \in DOMAIN req[s].calls : req[s].calls[c] = "failed") =>
            /\ req[s].pc /= "ocr"
            /\ \A j \in DOMAIN pdfCache :
                  ~pdfCache[j].isOCR /\ ~HasOcrText(pdfCache[j].content)
            /\ extractResp.status /= 0 =>
                  /\ extractResp.status = 200
                  /\ ~extractResp.isOCR
                  /\ ~extractResp.requiresSegmentation
                  /\ ~HasOcrText(extractResp.content)

\* C12 witness: the second of three calls has just failed after the first
\* had returned its text, and the request has been answered.
C12_Witness ==
    /\ req[1].calls = <<"returned", "failed", "pending">>
    /\ req[1].order = <<0, 1>>
    /\ extractResp.status = 200

\* C13: OCR text is cached or answered only when every one of the
\* ceil(N / PAGES_PER_REQUEST) calls of the request has returned.
C13_JoinBarrier ==
    \A s \in Slots :
        (\/ extractResp.isOCR
         \/ \E j \in DOMAIN pdfCache :
               pdfCache[j].isOCR \/ HasOcrText(pdfCache[j].content))
        => /\ extractResp.isOCR
           /\ Len(req[s].calls) = CeilDiv(extractResp.pageCount, PAGES_PER_REQUEST)
           /\ Len(req[s].order) = Len(req[s].calls)
           /\ \A c \in DOMAIN req[s].calls : req[s].calls[c] = "returned"

\* C13 witness: two of the three calls have returned, the second is still
\* out, and nothing has been cached or answered.
C13_Witness ==
    /\ req[1].pc = "ocr"
    /\ req[1].calls = <<"returned", "pending", "returned">>
    /\ pdfCache = <<>>
    /\ extractResp = NoResp

\* This step is the data-ready handler of slot s, run on a scanned PDF.
ScannedDataReady(s) ==
    /\ req[s].pc = "parsing"
    /\ ~req[s].pdf.corrupt
    /\ IsScannedPDF(req[s].pdf)
    /\ req'[s] /= req[s]

\* C14: a request for a scanned PDF on a server without a Vision client is
\* answered with a failure, not with a normal extraction result.
C14_OcrUnavailableSurfaced ==
    [][\A s \in Slots :
        (ScannedDataReady(s) /\ ~visionClient)
        => /\ extractResp'.status /= 0
           /\ extractResp'.status /= 200 \/ extractResp'.error /= ""]_vars

\* The map holds an unexpired OCR entry under the url of the request of s.
HasCachedOcr(s) ==
    /\ Has(pdfCache, req[s].url)
    /\ now - Entry(pdfCache, req[s].url).timestamp <= PDF_CACHE_DURATION
    /\ Entry(pdfCache, req[s].url).isOCR

\* The request of s is answered with the too-large result, which names the
\* page count and the limit; no OCR call is made and no cache entry created.
AnsweredTooLarge(s) ==
    /\ extractResp'.error = "scanned_pdf_too_large"
    /\ extractResp'.pageCount = PageCount(req[s].pdf)
    /\ extractResp'.message = <<PageCount(req[s].pdf), 30>>
    /\ req'[s].pc = "idle"
    /\ req'[s].calls = <<>>
    /\ Pairs(pdfCache') \subseteq Pairs(pdfCache)

\* C15 as stated: a scanned PDF of more than 30 pages with no cached OCR text
\* is answered with the too-large result.
C15_TooLargeForOcr ==
    [][\A s \in Slots :
        (/\ ScannedDataReady(s)
         /\ PageCount(req[s].pdf) > 30
         /\ ~HasCachedOcr(s))
        => AnsweredTooLarge(s)]_vars

\* ------------------------------------------------------------------ ranking
\* A request that passed validation and was ranked.
Ranked == quoteReq.pc /= "idle" /\ quoteReq.status /= 400

\* Sentence str contains keyword k of the topic.
ContainsKeyword(str, topic) ==
    \E i \in DOMAIN Keywords(topic) :
        Includes(ToLowerCase(str), Keywords(topic)[i])

\* C16: when no sentence of the text contains a keyword of the topic and the
\* fuzzy search matched nothing, the request is answered with an empty quote
\* list and the completion API was never called for it.
C16_NoSignalNoRefinement ==
    (/\ Ranked
     /\ \A i \in DOMAIN quoteReq.sentences :
            ~ContainsKeyword(quoteReq.sentences[i], quoteReq.topic)
     /\ DOMAIN quoteReq.searchResults = {})
    => /\ quoteReq.pc = "done"
       /\ quoteReq.status = 200
       /\ quoteReq.quotes = <<>>
       /\ quoteReq.message = "No relevant quotes found"
       /\ quoteReq.calls = 0

\* A text of several sentences, a topic with a keyword, no sentence with
\* the keyword, no fuzzy match: answered empty without a call.
C16_Witness ==
    /\ Ranked
    /\ quoteReq.pc = "done"
    /\ Len(quoteReq.sentences) >= 2
    /\ Keywords(quoteReq.topic) /= <<>>
    /\ \A i \in DOMAIN quoteReq.sentences :
           ~ContainsKeyword(quoteReq.sentences[i], quoteReq.topic)
    /\ DOMAIN quoteReq.searchResults = {}
    /\ quoteReq.quotes = <<>>
    /\ quoteReq.calls = 0

\* The request went through the context window: its handler got past the
\* filter with candidates.
Selected == Ranked /\ quoteReq.filtered /= <<>>

\* C17: the context window never picks a sentence index twice and never
\* picks an index outside 0 .. sentences.length - 1, before and after the
\* indices are sorted.
C17_PickedOnceAndInRange ==
    \A picked \in {quoteReq.walked, quoteReq.picked} :
        /\ \A i \in DOMAIN picked :
               picked[i] \in 0..(Len(quoteReq.sentences) - 1)
        /\ \A i, j \in DOMAIN picked : picked[i] = picked[j] => i = j

\* Candidates at both ends of the text and next to each other: the first
\* has no sentence before it, the last none after it, and a neighbour of one
\* is a candidate itself.
C17_Witness ==
    /\ Selected
    /\ Len(quoteReq.sentences) >= 3
    /\ \E i, j, k \in DOMAIN quoteReq.filtered :
           /\ quoteReq.filtered[i] = 0
           /\ quoteReq.filtered[j] = Len(quoteReq.sentences) - 1
           /\ quoteReq.filtered[k] = 1
    /\ Len(quoteReq.walked) = Len(quoteReq.sentences)

\* The handler took the catch block: the content was missing or was no JSON.
ParseFailed == quoteReq.content.kind \in {"missing", "text"}

\* C18: the sentences handed to the completion API, and answered as quotes
\* when its content cannot be parsed, are in strictly ascending index order,
\* whatever the order of the scores.
C18_DocumentOrder ==
    Selected =>
        /\ \A i, j \in DOMAIN quoteReq.picked :
               i < j => quoteReq.picked[i] < quoteReq.picked[j]
        /\ quoteReq.relevantQuotes =
               [i \in 1..Len(quoteReq.picked) |->
                   quoteReq.sentences[quoteReq.picked[i] + 1]]
        /\ ParseFailed =>
               [i \in 1..Len(quoteReq.quotes) |-> quoteReq.quotes[i].quote]
                  = quoteReq.relevantQuotes

\* A later sentence outscores an earlier one, the walk picked them in score
\* order, and the quotes answered after a failed parse are in index order.
C18_Witness ==
    /\ Selected
    /\ ParseFailed
    /\ Len(quoteReq.quotes) >= 3
    /\ \E i \in DOMAIN quoteReq.filtered :
           i > 1 /\ quoteReq.filtered[i] < quoteReq.filtered[i - 1]
    /\ \E i \in DOMAIN quoteReq.walked :
           i > 1 /\ quoteReq.walked[i] < quoteReq.walked[i - 1]
    /\ quoteReq.walked /= quoteReq.picked

\* C19: every sentence that contains the whole lower-cased topic is among
\* the sentences selected for the completion API, whatever the fuzzy search
\* returned.
C19_TopicSentencesSelected ==
    Ranked =>
        \A i \in DOMAIN quoteReq.sentences :
            Includes(ToLowerCase(quoteReq.sentences[i]),
                     ToLowerCase(quoteReq.topic))
            => /\ \E j \in DOMAIN quoteReq.picked : quoteReq.picked[j] = i - 1
               /\ \E j \in DOMAIN quoteReq.relevantQuotes :
                      quoteReq.relevantQuotes[j] = quoteReq.sentences[i]

\* The completion API answered the request.
Refined == Selected /\ quoteReq.content.kind /= "none"

\* The content is the list the completion API is asked for: JSON, an array,
\* each item a string or an object with a quote.
ExpectedList ==
    /\ quoteReq.content.kind = "json"
    /\ quoteReq.content.value.type = "array"
    /\ \A i \in DOMAIN quoteReq.content.value.items :
           LET item == quoteReq.content.value.items[i]
           IN  \/ item.type = "string"
               \/ item.type = "object" /\ item.quote /= <<>>

\* The content is missing, is no JSON, is JSON but no array, or is an array
\* with a null item.
Unmappable ==
    \/ quoteReq.content.kind \in {"missing", "text"}
    \/ /\ quoteReq.content.kind = "json"
       /\ \/ quoteReq.content.value.type /= "array"
          \/ \E i \in DOMAIN quoteReq.content.value.items :
                quoteReq.content.value.items[i].type = "null"

\* The request is answered 200 with the selected sentences, in their order,
\* each with the numbered generic relevance.
AnsweredWithSelected ==
    /\ quoteReq.pc = "done"
    /\ quoteReq.status = 200
    /\ Len(quoteReq.quotes) = Len(quoteReq.picked)
    /\ \A i \in DOMAIN quoteReq.quotes :
           /\ quoteReq.quotes[i].quote = quoteReq.sentences[quoteReq.picked[i] + 1]
           /\ quoteReq.quotes[i].relevance =
                 <<"Selected based on topic relevance and text analysis #", i>>

\* C20 as stated: whenever the content of the completion is anything but
\* the expected JSON list, the request is answered 200 with exactly the
\* selected sentences, in order, each with a generic relevance.
C20_FallbackUnlessExpectedList ==
    (Refined /\ ~ExpectedList) => AnsweredWithSelected

\* C20, amended: whenever the content of the completion is missing, is no
\* JSON, or is JSON other than an array of non-null items, the request is
\* answered 200 with exactly the selected sentences, in order, each with a
\* generic relevance.
C20_FallbackWhenUnmappable ==
    (Refined /\ Unmappable) => AnsweredWithSelected

\* Several sentences were selected, the content was JSON but no usable
\* array, and the sentences themselves were answered.
C20_Witness ==
    /\ Refined
    /\ quoteReq.content.kind = "json"
    /\ Unmappable
    /\ Len(quoteReq.relevantQuotes) >= 2
    /\ AnsweredWithSelected

\* -------------------------------------------------------------- atomicity
\* Callback c is inside a cache call.
InCacheCall(c) == task.pc[c] /= "idle"

\* What the call that returned last would have left and returned had it run
\* in one piece on the map it found.
InOnePiece(call) ==
    IF call.op = "put"
    THEN [cache |-> cachePdfContent(call.start, call.key, call.content,
                                    call.isOCR, call.t),
          cached |-> Miss]
    ELSE LET r == getCachedPdfContent(call.start, call.key, call.t)
         IN  [cache |-> r.cache, cached |-> r.cached]

\* C21: a cache put and a cache get run as one critical section: while a
\* callback is inside one, it holds the stack and no other callback is
\* inside one, no statement of another callback runs before it returns, and
\* the call leaves the map and returns the object that the whole function
\* computes from the map it found.
C21_CacheCallsAtomic ==
    /\ \A c \in Callbacks :
          InCacheCall(c) => /\ task.running = c
                            /\ \A d \in Callbacks \ {c} : ~InCacheCall(d)
    /\ task.last.call.op /= "none"
       => /\ task.last.after = InOnePiece(task.last.call).cache
          /\ task.last.cached = InOnePiece(task.last.call).cached

\* A put of the second callback has just returned; it found the map full,
\* with an expired entry to sweep.
C21_Witness ==
    /\ task.last.call.op = "put"
    /\ task.last.by = 2
    /\ Len(task.last.call.start) >= MAX_CACHE_SIZE
    /\ ~AllUnexpired(task.last.call.start, task.last.call.t)
    /\ \E i \in DOMAIN task.last.call.start :
           task.last.call.start[i].isOCR

\* ------------------------------------------------------------- segmenter
\* C22: the sentences are exactly the trimmed units that are not shorter
\* than the minimum length (a unit of exactly that length is one), in the
\* order of the text, and they are numbered 0, 1, 2, ... in that order.
C22_KeepsUnitsOfMinLength ==
    Ranked =>
        /\ quoteReq.sentences =
              SelectSeq(Units(quoteReq.pageContent),
                        LAMBDA u : Len(u) >= MIN_SENTENCE_LEN)
        /\ \A i \in DOMAIN quoteReq.scored : quoteReq.scored[i].idx = i - 1

\* ------------------------------------------------------------ cache puts
\* C23: right after any put, the map holds no entry older than
\* PDF_CACHE_DURATION, whatever its key.
C23_PutSweepsExpired ==
    [][(ret'.op = "put" /\ now' = now) => AllUnexpired(pdfCache', now')]_vars

\* A put has just removed two expired entries, one of them of another key.
C23_Witness ==
    /\ ret.op = "put"
    /\ Cardinality(ret.removed) >= 2
    /\ ret.removed \ {ret.key} /= {}
    /\ \A k \in ret.removed \ {ret.key} : ~Has(pdfCache, k)
    /\ Entry(pdfCache, ret.key).timestamp = now

\* C24: a put of a key that is in the map removes no unexpired entry of
\* another key, also when the map is full, and leaves under its own key the
\* content, flag and time of the put.
C24_PutOfPresentKeyKeepsOthers ==
    [][\A k \in Keys, p \in Payloads :
        (CallPut(k, p.content, p.isOCR) /\ Has(pdfCache, k))
        => /\ \A i \in 1..Len(pdfCache) :
                 (pdfCache[i].key /= k /\ ~Expired(pdfCache[i], now))
                 => \E j \in 1..Len(pdfCache') : pdfCache'[j] = pdfCache[i]
           /\ Entry(pdfCache', k) = [key |-> k, content |-> p.content,
                                     isOCR |-> p.isOCR, timestamp |-> now]]_vars

\* ---------------------------------------------------------------- scores
\* Entry e scores on fuzzy overlap only.
FuzzyOnly(e) == e.keywordHits = 0 /\ e.exactTopicMatch = 0

\* C25: a sentence that contains the whole topic scores strictly higher
\* than any sentence whose only signal is its fuzzy weight, whatever their
\* lengths, positions and fuzzy weights, and comes before it in score order.
C25_TopicMatchOutscoresFuzzy ==
    Ranked =>
        /\ \A i, j \in DOMAIN quoteReq.scored :
               (quoteReq.scored[i].exactTopicMatch = 2 /\ FuzzyOnly(quoteReq.scored[j]))
               => ScoreAbove(quoteReq.scored[i], quoteReq.scored[j])
        /\ \A i, j \in DOMAIN quoteReq.filtered :
               LET a == quoteReq.scored[quoteReq.filtered[i] + 1]
                   b == quoteReq.scored[quoteReq.filtered[j] + 1]
               IN  (a.exactTopicMatch = 2 /\ FuzzyOnly(b)) => i < j

\* The worst case within the texts: the topic sentence is the last one, too
\* long, matched by no keyword and by no fuzzy result; the first sentence
\* has the best fuzzy weight and a good length.
C25_Witness ==
    /\ Selected
    /\ LET n == Len(quoteReq.scored)
       IN  /\ n >= 4
           /\ quoteReq.scored[n].exactTopicMatch = 2
           /\ quoteReq.scored[n].keywordHits = 0
           /\ quoteReq.scored[n].fuzzy = 0
           /\ Len(quoteReq.scored[n].s) > maxLen
           /\ FuzzyOnly(quoteReq.scored[1])
           /\ quoteReq.scored[1].fuzzy = 10
           /\ Len(quoteReq.scored[1].s) <= maxLen
           /\ quoteReq.filtered[1] = n - 1

\* ------------------------------------------------------- OCR text, cached
\* C26: when the OCR look-up of a request hits, the text it finds is the
\* OCR text of the request's own document, not text stored while another
\* document was processed.
C26_CachedOcrIsOwnDocument ==
    \A s \in Slots :
        (/\ req[s].pc = "parsing"
         /\ ~req[s].pdf.corrupt
         /\ IsScannedPDF(req[s].pdf)
         /\ visionClient
         /\ HasCachedOcr(s))
        => Entry(pdfCache, req[s].url).content
              = OcrCleanedText(req[s].pdf, PageCount(req[s].pdf))

\* ---------------------------------------------------- extract, answered
\* C27: every request that reached the parser is answered, and a request
\* whose PDF the parser rejects is answered 500 'Failed to extract PDF
\* content'.
C27_ExtractAlwaysAnswered ==
    /\ \A s \in Slots :
          (req[s].pc \in {"parsing", "ocr"}) ~> (req[s].pc = "idle")
    /\ [][\A s \in Slots :
            (req[s].pc = "parsing" /\ req[s].pdf.corrupt /\ req'[s] /= req[s])
            => /\ extractResp'.status = 500
               /\ extractResp'.error = "Failed to extract PDF content"]_vars

\* ------------------------------------------------------ never empty-handed
\* The request has a relevance signal: a sentence with a keyword of the
\* topic, or a fuzzy match.
HasRelevanceSignal ==
    \/ \E i \in DOMAIN quoteReq.sentences :
          ContainsKeyword(quoteReq.sentences[i], quoteReq.topic)
    \/ DOMAIN quoteReq.searchResults /= {}

\* C28: a ranked request that does not take the no-signal exit has
\* candidates and selected sentences, and the completion API is called
\* exactly once for it: neither the relaxed filter nor the check of the
\* selection answers it empty-handed.
C28_SignalMeansOneRefinement ==
    (Ranked /\ HasRelevanceSignal)
    => /\ quoteReq.filtered /= <<>>
       /\ quoteReq.relevantQuotes /= <<>>
       /\ quoteReq.calls = 1
       /\ quoteReq.message /= "No relevant quotes found"

\* The filter kept nothing (the only signal is a weak fuzzy match), the
\* relaxed filter kept every sentence, and the completion API was called.
C28_Witness ==
    /\ Ranked
    /\ HasRelevanceSignal
    /\ \A i \in DOMAIN quoteReq.scored : ~HasSignal(quoteReq.scored[i])
    /\ Len(quoteReq.filtered) = Len(quoteReq.sentences)
    /\ Len(quoteReq.sentences) >= 2
    /\ quoteReq.calls = 1

\* --------------------------------------------------- one document, two calls
\* The cache holds an unexpired OCR text under the key.
HoldsOcrText(cache, key, t) ==
    \E i \in 1..Len(cache) :
       cache[i].key = key /\ cache[i].isOCR /\ ~Expired(cache[i], t)

\* The response carries the text: whole, or as the length of what is served
\* in segments.
ServesText(resp, text) ==
    /\ resp.status = 200
    /\ resp.isOCR
    /\ IF resp.requiresSegmentation THEN resp.totalLength = Len(text)
       ELSE resp.content = text

\* C29: of two requests for the same scanned document that are in flight
\* together on an empty cache, the OCR calls are started (calls is not
\* empty) for at most one
\* (no OCR call failing and no entry expiring in between).
C29_FanOutAtMostOnce ==
    (now = 0 /\ \A s \in PairSlots : \A c \in DOMAIN req[s].calls :
                   req[s].calls[c] /= "failed")
    => ~(\A s \in PairSlots : req[s].calls /= <<>>)

\* C29, amended: the request whose parser calls back while the cache holds
\* an unexpired OCR text for its URL starts no OCR call and is answered with
\* that text.
C29_CheckAfterStoreServedFromCache ==
    [][\A s \in PairSlots :
          (/\ req[s].pc = "parsing"
           /\ req'[s].pc /= "parsing"
           /\ HoldsOcrText(pdfCache, req[s].url, now))
          => /\ req'[s].pc = "idle"
             /\ req'[s].calls = <<>>
             /\ \E i \in 1..Len(pdfCache) :
                   /\ pdfCache[i].key = req[s].url
                   /\ ServesText(extractResp', pdfCache[i].content)]_vars

\* One request was answered from the cache with the OCR text that the
\* other one's calls produced.
C29_Witness ==
    \E s, o \in PairSlots :
       /\ s /= o
       /\ req[s].pc = "idle"
       /\ req[s].calls = <<>>
       /\ req[o].calls /= <<>>
       /\ \A c \in DOMAIN req[o].calls : req[o].calls[c] = "returned"
       /\ req[o].pc = "idle"
       /\ \E pdf \in PairPdfs :
             /\ Len(req[o].calls) = Len(PageChunks(PageCount(pdf)))
             /\ ServesText(extractResp, OcrCleanedText(pdf, PageCount(pdf)))

\* ------------------------------------------------ candidates and neighbours
\* C30: the sentences selected are the candidates and their neighbours
\* inside the text, and walking the candidates in the opposite order selects
\* the same sentences.
C30_CandidatesWithNeighbours ==
    LET filtered == quoteReq.filtered
        n == Len(quoteReq.sentences)
        \* the candidates with the sentences before and after them, where
        \* the text has such sentences
        withNeighbours ==
            {i \in 0..(n - 1) :
                \E j \in DOMAIN filtered :
                   i \in {filtered[j] - 1, filtered[j], filtered[j] + 1}}
        \* what the walk picks when it takes the candidates in the order
        walkedSet(order) ==
            LET walked == PickFrom([i \in DOMAIN order |-> [idx |-> order[i]]],
                                   1, n, <<>>)
            IN  {walked[i] : i \in DOMAIN walked}
        reversed == [i \in DOMAIN filtered |-> filtered[Len(filtered) + 1 - i]]
    IN  Selected
        => /\ {quoteReq.picked[i] : i \in DOMAIN quoteReq.picked} = withNeighbours
           /\ walkedSet(reversed) = walkedSet(filtered)

====
